---- MODULE Spec2Model ----
(***************************************************************************)
(* Contrast-response fitting pipeline                                      *)
(* (Contrat_Gain_VSS/scripts/analysis/5_model_fitting.py).                 *)
(*                                                                         *)
(* Numbers.  The script computes in floating point.  Here a number is an   *)
(* exact fraction [n, d] in lowest terms with d > 0, extended with the     *)
(* three values a numpy division can produce besides a finite number:      *)
(* [1,0] = +inf, [-1,0] = -inf, [0,0] = NaN.  Rounding is not modelled.    *)
(* The saturation exponent s is drawn from multiples of 1/2, so that the   *)
(* exponent 2*s of the model function is an integer and the power of a     *)
(* fraction is again a fraction.                                           *)
(***************************************************************************)
EXTENDS Integers, Sequences, FiniteSets, TLC

(***************************************************************************)
(* Bounds of the model (not program constants).                            *)
(***************************************************************************)
\* sample values of contrasts and parameters are m/2, m \in -1 .. GridMax
GridMax == 4
\* sampled saturation exponents are j/2, j \in -1 .. SatSteps
SatSteps == 4
\* number of intervals of the fine contrast grid (the script takes 99)
FineSteps == 3
\* cap on the optimizer iterates kept apart in one fit
MaxNfev == 2

(***************************************************************************)
(* Exact arithmetic with the IEEE special values.                          *)
(***************************************************************************)
Abs(x) == IF x < 0 THEN -x ELSE x

Sgn(x) == IF x < 0 THEN -1 ELSE IF x > 0 THEN 1 ELSE 0

RECURSIVE GCD(_, _)
GCD(a, b) == IF b = 0 THEN a ELSE GCD(b, a % b)

\* the fraction n/d in lowest terms; d = 0 gives +inf, -inf or NaN
R(n, d) ==
    IF d = 0 THEN [n |-> Sgn(n), d |-> 0]
    ELSE LET g == GCD(Abs(n), Abs(d))
         IN  [n |-> Sgn(n) * Sgn(d) * (Abs(n) \div g), d |-> Abs(d) \div g]

Int2R(k) == [n |-> k, d |-> 1]

NaN == [n |-> 0, d |-> 0]
PosInf == [n |-> 1, d |-> 0]
NegInf == [n |-> -1, d |-> 0]

IsNaN(x) == x.d = 0 /\ x.n = 0
IsInf(x) == x.d = 0 /\ x.n # 0
IsFinite(x) == x.d > 0
IsZero(x) == x.d > 0 /\ x.n = 0

RNeg(a) == [n |-> -a.n, d |-> a.d]

RAdd(a, b) ==
    IF IsNaN(a) \/ IsNaN(b) THEN NaN
    ELSE IF IsInf(a) /\ IsInf(b) THEN (IF a.n = b.n THEN a ELSE NaN)
    ELSE IF IsInf(a) THEN a
    ELSE IF IsInf(b) THEN b
    ELSE LET g == GCD(a.d, b.d)
         IN  R(a.n * (b.d \div g) + b.n * (a.d \div g), (a.d \div g) * b.d)

RSub(a, b) == RAdd(a, RNeg(b))

RMul(a, b) ==
    IF IsNaN(a) \/ IsNaN(b) THEN NaN
    ELSE IF IsInf(a) \/ IsInf(b)
         THEN (IF a.n = 0 \/ b.n = 0 THEN NaN ELSE [n |-> Sgn(a.n) * Sgn(b.n), d |-> 0])
    ELSE LET g1 == GCD(Abs(a.n), b.d)
             g2 == GCD(Abs(b.n), a.d)
         IN  R((Sgn(a.n) * (Abs(a.n) \div g1)) * (Sgn(b.n) * (Abs(b.n) \div g2)),
               (a.d \div g2) * (b.d \div g1))

\* a / b as numpy divides float64 arrays: x/0 is +-inf, 0/0 is NaN, no exception
RDiv(a, b) ==
    IF IsNaN(a) \/ IsNaN(b) THEN NaN
    ELSE IF IsZero(b) THEN (IF a.n = 0 THEN NaN ELSE [n |-> Sgn(a.n), d |-> 0])
    ELSE IF IsInf(b) THEN (IF IsInf(a) THEN NaN ELSE Int2R(0))
    ELSE RMul(a, R(Sgn(b.n) * b.d, Abs(b.n)))

\* a ** k for an integer k; x ** 0 is 1 for every x, 0 ** k is +inf for k < 0
RECURSIVE RPow(_, _)
RPow(a, k) ==
    IF k = 0 THEN Int2R(1)
    ELSE IF k < 0 THEN RDiv(Int2R(1), RPow(a, -k))
    ELSE RMul(a, RPow(a, k - 1))

\* a ** e for a fraction e with an integer value
RPowR(a, e) == CASE e.d = 1 -> RPow(a, e.n)

\* an/ad < bn/bd for an, bn >= 0 and ad, bd > 0, without forming products
RECURSIVE FracLess(_, _, _, _)
FracLess(an, ad, bn, bd) ==
    LET qa == an \div ad
        qb == bn \div bd
        ra == an % ad
        rb == bn % bd
    IN  IF qa # qb THEN qa < qb
        ELSE IF rb = 0 THEN FALSE
        ELSE IF ra = 0 THEN TRUE
        ELSE FracLess(bd, rb, ad, ra)

\* a < b; every comparison with NaN is false
RLess(a, b) ==
    IF IsNaN(a) \/ IsNaN(b) THEN FALSE
    ELSE IF IsInf(a) \/ IsInf(b)
         THEN (IF IsInf(a) /\ IsInf(b) THEN a.n < b.n
               ELSE IF IsInf(a) THEN a.n < 0 ELSE b.n > 0)
    ELSE IF a.n < 0 /\ b.n >= 0 THEN TRUE
    ELSE IF a.n >= 0 /\ b.n < 0 THEN FALSE
    ELSE IF a.n >= 0 THEN FracLess(a.n, a.d, b.n, b.d)
    ELSE FracLess(-b.n, b.d, -a.n, a.d)

REq(a, b) == ~IsNaN(a) /\ ~IsNaN(b) /\ a = b

RLeq(a, b) == RLess(a, b) \/ REq(a, b)

RMaxOf(a, b) == IF RLess(a, b) THEN b ELSE a

RMinOf(a, b) == IF RLess(b, a) THEN b ELSE a

Half(m) == R(m, 2)

\* np.max / sum / mean of a non-empty array
RECURSIVE NpMaxUpTo(_, _)
NpMaxUpTo(a, k) == IF k = 1 THEN a[1] ELSE RMaxOf(NpMaxUpTo(a, k - 1), a[k])

NpMax(a) == NpMaxUpTo(a, Len(a))

RECURSIVE NpSumUpTo(_, _)
NpSumUpTo(a, k) == IF k = 0 THEN Int2R(0) ELSE RAdd(NpSumUpTo(a, k - 1), a[k])

NpSum(a) == NpSumUpTo(a, Len(a))

NpMean(a) == RDiv(NpSum(a), Int2R(Len(a)))

Range(f) == {f[i] : i \in DOMAIN f}

(***************************************************************************)
(* Configuration parameters of the script.                                 *)
(***************************************************************************)
\* contrast levels 0.05, 0.1, 0.2, 0.4, 0.8
CONTRASTS == <<R(1, 20), R(1, 10), R(1, 5), R(2, 5), R(4, 5)>>

\* np.linspace(0.05, 0.8, FineSteps + 1)
FINE_CONTRAST ==
    [i \in 1 .. FineSteps + 1 |->
        RAdd(R(1, 20), RMul(R(i - 1, FineSteps), RSub(R(4, 5), R(1, 20))))]

INITIAL_PARAMS == [semisaturation |-> R(3, 10), Saturation |-> Int2R(1)]

\* (min, max) of each constrained parameter; None is an infinite bound
PARAM_CONSTRAINTS ==
    [semisaturation |-> <<Int2R(0), Int2R(50)>>,
     Saturation     |-> <<Int2R(0), Int2R(5)>>,
     baseline       |-> <<Int2R(0), PosInf>>]

\* the lower bound given to MAXampl inline ("Response can't be negative")
MAXamplMin == Int2R(0)

(***************************************************************************)
(* lmfit.Parameters: each parameter carries its value and its bounds.      *)
(* Parameter() clips the initial value into [min, max] as lmfit does; a     *)
(* parameter varies in the fit unless it is added with vary=False.         *)
(***************************************************************************)
Parameter(value, min, max) ==
    [value |-> RMinOf(RMaxOf(value, min), max), min |-> min, max |-> max,
     vary  |-> TRUE]

\* the values the optimizer can give a parameter: lmfit maps its unbounded
\* internal variable onto the closed interval [min, max]
WithinBounds(par) == RLeq(par.min, par.value) /\ RLeq(par.value, par.max)

ParamNames == {"semisaturation", "MAXampl", "Saturation", "baseline"}

AllWithinBounds(params) == \A name \in ParamNames : WithinBounds(params[name])

SetValues(params, semisat, Rmax, s, b) ==
    [params EXCEPT !.semisaturation.value = semisat,
                   !.MAXampl.value = Rmax,
                   !.Saturation.value = s,
                   !.baseline.value = b]

(***************************************************************************)
(* Model functions.                                                        *)
(***************************************************************************)
\* mutant: the numerator taken as contrast instead of contrast**2
response_lin(params, contrast) ==
    LET twoS == RMul(Int2R(2), params.Saturation.value)
    IN  RAdd(RDiv(RMul(params.MAXampl.value, contrast),
                  RAdd(RPowR(params.semisaturation.value, twoS), RPowR(contrast, twoS))),
             params.baseline.value)

\* mutant: the textbook Naka-Rushton form, numerator exponent 2*s
response_std(params, contrast) ==
    LET twoS == RMul(Int2R(2), params.Saturation.value)
    IN  RAdd(RDiv(RMul(params.MAXampl.value, RPowR(contrast, twoS)),
                  RAdd(RPowR(params.semisaturation.value, twoS), RPowR(contrast, twoS))),
             params.baseline.value)

\* mutant: the two terms of the denominator subtracted
response_minus(params, contrast) ==
    LET twoS == RMul(Int2R(2), params.Saturation.value)
    IN  RAdd(RDiv(RMul(params.MAXampl.value, RPow(contrast, 2)),
                  RSub(RPowR(params.semisaturation.value, twoS), RPowR(contrast, twoS))),
             params.baseline.value)

\* one element of the array expression of naka_rushton
response(params, contrast) ==
    LET semisat == params.semisaturation.value
        Rmax    == params.MAXampl.value
        s       == params.Saturation.value
        b       == params.baseline.value
        twoS    == RMul(Int2R(2), s)
    IN  RAdd(RDiv(RMul(Rmax, RPow(contrast, 2)),
                  RAdd(RPowR(semisat, twoS), RPowR(contrast, twoS))),
             b)

naka_rushton(params, contrast) ==
    [i \in DOMAIN contrast |-> response(params, contrast[i])]

residual(params, contrast, data) ==
    LET model == naka_rushton(params, contrast)
    IN  [i \in DOMAIN data |-> RSub(data[i], model[i])]

\* mutant: semisaturation added without its bounds
initialize_parameters_nomin(data, baseline) ==
    [semisaturation |-> Parameter(INITIAL_PARAMS.semisaturation, NegInf, PosInf),
     MAXampl        |-> Parameter(NpMax(data), MAXamplMin, PosInf),
     Saturation     |-> Parameter(INITIAL_PARAMS.Saturation,
                                  PARAM_CONSTRAINTS.Saturation[1],
                                  PARAM_CONSTRAINTS.Saturation[2]),
     baseline       |-> Parameter(baseline, PARAM_CONSTRAINTS.baseline[1], PosInf)]

\* mutant: baseline added without its lower bound
initialize_parameters_nobase(data, baseline) ==
    [semisaturation |-> Parameter(INITIAL_PARAMS.semisaturation,
                                  PARAM_CONSTRAINTS.semisaturation[1],
                                  PARAM_CONSTRAINTS.semisaturation[2]),
     MAXampl        |-> Parameter(NpMax(data), MAXamplMin, PosInf),
     Saturation     |-> Parameter(INITIAL_PARAMS.Saturation,
                                  PARAM_CONSTRAINTS.Saturation[1],
                                  PARAM_CONSTRAINTS.Saturation[2]),
     baseline       |-> Parameter(baseline, NegInf, PosInf)]

\* mutant: the exponent held fixed at its initial value
initialize_parameters_fixed(data, baseline) ==
    [semisaturation |-> Parameter(INITIAL_PARAMS.semisaturation,
                                  PARAM_CONSTRAINTS.semisaturation[1],
                                  PARAM_CONSTRAINTS.semisaturation[2]),
     MAXampl        |-> Parameter(NpMax(data), MAXamplMin, PosInf),
     Saturation     |-> [Parameter(INITIAL_PARAMS.Saturation,
                                   PARAM_CONSTRAINTS.Saturation[1],
                                   PARAM_CONSTRAINTS.Saturation[2])
                            EXCEPT !.vary = FALSE],
     baseline       |-> Parameter(baseline, PARAM_CONSTRAINTS.baseline[1], PosInf)]

initialize_parameters(data, baseline) ==
    [semisaturation |-> Parameter(INITIAL_PARAMS.semisaturation,
                                  PARAM_CONSTRAINTS.semisaturation[1],
                                  PARAM_CONSTRAINTS.semisaturation[2]),
     MAXampl        |-> Parameter(NpMax(data), MAXamplMin, PosInf),
     Saturation     |-> Parameter(INITIAL_PARAMS.Saturation,
                                  PARAM_CONSTRAINTS.Saturation[1],
                                  PARAM_CONSTRAINTS.Saturation[2]),
     baseline       |-> Parameter(baseline, PARAM_CONSTRAINTS.baseline[1], PosInf)]

(***************************************************************************)
(* State.                                                                  *)
(***************************************************************************)
VARIABLES
    evParams,     \* evaluateCurve: the parameter object handed to naka_rushton
    evContrast,   \* evaluateCurve: the contrast samples <<c1, c2>>, c1 <= c2
    evData,       \* the observed values at the two samples
    evModel,      \* naka_rushton(evParams, evContrast), <<>> before the call
    evResid,      \* residual(evParams, evContrast, evData), <<>> before the call
    jobs,         \* the (group, subject, data_file) triples the main loops visit, in order
    jobIdx,       \* index into jobs of the triple being processed / to process next
    pc,           \* position in __main__ / process_subject
    subject_data, \* load_subject_data: the subject's row of the CSV file, or "none"
    data,         \* process_subject: the five responses loaded for the subject
    baseline,     \* process_subject: the loaded baseline
    params,       \* the lmfit Parameters the optimizer currently evaluates
    nfev,         \* number of optimizer iterates after the initial guess
    result,       \* the MinimizerResult [params, residual, success], or "none"
    gof,          \* [rss, tss, rsq] of the current subject, or "none"
    subject_ids,  \* __main__: subject_ids
    all_results,  \* __main__: all_results
    errlog,       \* the "Error processing <subject>" lines printed so far
    csv,          \* fit_results_all_smax2_Nmax1.csv: whether written, its header and rows
    log_data,     \* classify_responses: its argument <<codes, times>>, the log's two columns
    cl,           \* classify_responses: its locals and its position, or "none"
    rt_subjects,  \* process_reaction_times: ALL_SUBJECTS
    rt_logfiles,  \* the log file of each subject: <<>> if there is none, else <<log>>
    rt_idx,       \* main: index into ALL_SUBJECTS of the subject of the current iteration
    rt_pc,        \* position in main of process_reaction_times
    all_response_data,  \* main: all_response_data
    response_csv, \* response_time.csv: whether written, and its rows
    rep,          \* the report stage of process_subject run again and again: the
                  \* files of the subject directories, the open report, the runs
    ep,           \* create_epochs: the events, the locals and the position
    psd,          \* the PSD batch: the subjects, the results and the position
    gp,           \* process_subject_epochs: the clean indices and their correction
    bl            \* add_block_information: the table and the position

curveVars == <<evParams, evContrast, evData, evModel, evResid>>

fitVars == <<jobs, jobIdx, pc, subject_data, data, baseline, params, nfev, result, gof,
             subject_ids, all_results, errlog, csv>>

rtVars == <<log_data, cl, rt_subjects, rt_logfiles, rt_idx, rt_pc,
            all_response_data, response_csv>>

restVars == <<rep, ep, psd, gp, bl>>

vars == <<evParams, evContrast, evData, evModel, evResid,
          jobs, jobIdx, pc, subject_data, data, baseline, params, nfev, result, gof,
          subject_ids, all_results, errlog, csv,
          log_data, cl, rt_subjects, rt_logfiles, rt_idx, rt_pc,
          all_response_data, response_csv,
          rep, ep, psd, gp, bl>>

\* the batch does not run while single curves are evaluated, and conversely
FitIdle ==
    /\ jobs = <<>> /\ jobIdx = 1 /\ pc = "idle" /\ subject_data = "none"
    /\ data = <<>> /\ baseline = "none" /\ params = "none" /\ nfev = 0
    /\ result = "none" /\ gof = "none"
    /\ subject_ids = <<>> /\ all_results = <<>> /\ errlog = <<>>
    /\ csv = [written |-> FALSE, columns |-> <<>>, rows |-> <<>>]

CurveIdle ==
    /\ evParams = "none" /\ evContrast = <<>> /\ evData = <<>>
    /\ evModel = <<>> /\ evResid = <<>>

\* the locals of classify_responses outside a call
ClassifyIdle == log_data = <<>> /\ cl = "none"

\* main of process_reaction_times not started
MainIdle ==
    /\ rt_subjects = <<>> /\ rt_logfiles = <<>> /\ rt_idx = 1 /\ rt_pc = "idle"
    /\ all_response_data = <<>>
    /\ response_csv = [written |-> FALSE, rows |-> <<>>]

RtIdle == ClassifyIdle /\ MainIdle

\* the specifications below are not running
RestIdle == rep = "none" /\ ep = "none" /\ psd = "none" /\ gp = "none" /\ bl = "none"

(***************************************************************************)
(* Evaluation of the model function on sampled inputs.                     *)
(***************************************************************************)
GridValues == {Half(m) : m \in -1 .. GridMax}

SaturationValues == {Half(j) : j \in -1 .. SatSteps}

\* sampled contrasts: 0, the grid, and the ends of FINE_CONTRAST / CONTRASTS
ContrastSamples ==
    {c \in GridValues : ~RLess(c, Int2R(0))}
        \cup {FINE_CONTRAST[1], FINE_CONTRAST[Len(FINE_CONTRAST)]}
        \cup {CONTRASTS[1], CONTRASTS[Len(CONTRASTS)]}

\* parameter objects as initialize_parameters declares them, holding any
\* sampled values that lie within the declared bounds
CurveParams ==
    {p \in {SetValues(initialize_parameters(<<Int2R(0)>>, Int2R(0)), semisat, Rmax, s, b) :
                semisat \in GridValues, Rmax \in {Int2R(-1), Int2R(0), Int2R(1), Int2R(3)},
                s \in SaturationValues, b \in {Int2R(-1), Int2R(0), Half(1)}} :
        AllWithinBounds(p)}

InitCurve ==
    /\ evParams \in CurveParams
    /\ evContrast \in {cc \in ContrastSamples \X ContrastSamples : RLeq(cc[1], cc[2])}
    /\ evData \in {<<Int2R(-1), Half(3)>>, <<Int2R(1), Int2R(0)>>}
    /\ evModel = <<>>
    /\ evResid = <<>>
    /\ FitIdle
    /\ RtIdle
    /\ RestIdle

EvaluateCurve ==
    /\ evModel = <<>>
    /\ evModel' = naka_rushton(evParams, evContrast)
    /\ evResid' = residual(evParams, evContrast, evData)
    /\ UNCHANGED <<evParams, evContrast, evData>>
    /\ UNCHANGED fitVars
    /\ UNCHANGED rtVars
    /\ UNCHANGED restVars

NextCurve == EvaluateCurve

SpecCurve == InitCurve /\ [][NextCurve]_vars

(***************************************************************************)
(* Properties of the model function (SpecCurve).                           *)
(***************************************************************************)
Evaluated == evModel # <<>>

evS == evParams.Saturation.value
evRmax == evParams.MAXampl.value
evSemi == evParams.semisaturation.value
evB == evParams.baseline.value

\* the denominator of the model function at contrast c
Denominator(c) ==
    RAdd(RPowR(evSemi, RMul(Int2R(2), evS)), RPowR(c, RMul(Int2R(2), evS)))

Positive(x) == RLess(Int2R(0), x)

C2_Formula ==
    Evaluated =>
        \A i \in 1 .. 2 :
            /\ ~IsZero(Denominator(evContrast[i]))
                  => REq(RMul(RSub(evModel[i], evB), Denominator(evContrast[i])),
                         RMul(evRmax, RMul(evContrast[i], evContrast[i])))
            /\ IsFinite(evModel[i]) => REq(RAdd(evResid[i], evModel[i]), evData[i])

C2_Witness ==
    /\ Evaluated
    /\ Positive(evContrast[1]) /\ Positive(evSemi) /\ Positive(evRmax)
    /\ RLess(Int2R(1), evS)
    /\ RLess(evB, evModel[1])
    /\ ~REq(evResid[1], evData[1])

\* C3 as stated: within the declared bounds the response at contrast 0 is
\* the baseline.
C3_ResponseAtZeroIsBaseline ==
    (Evaluated /\ IsZero(evContrast[1])) => REq(evModel[1], evB)

C9_TotalOnPositiveContrast ==
    Evaluated =>
        \A i \in 1 .. 2 :
            Positive(evContrast[i])
                => /\ ~IsZero(Denominator(evContrast[i]))
                   /\ IsFinite(evModel[i])

C9_Witness ==
    /\ Evaluated
    /\ IsZero(evSemi) /\ Positive(evS) /\ Positive(evRmax)
    /\ evContrast[1] = FINE_CONTRAST[1]
    /\ evContrast[2] = CONTRASTS[Len(CONTRASTS)]
    /\ IsFinite(evModel[1]) /\ IsFinite(evModel[2])

(***************************************************************************)
(* The batch: __main__ and process_subject.                                *)
(***************************************************************************)
INPUT_FILES == <<"Appelbaum_Nmax_1">>

\* SUBJECTS_VS / SUBJECTS_CONTR: the lists of the script, and two other
\* settings of the same two configuration lists
SubjectLists ==
    {[VS |-> <<"Subject_1">>, CONTR |-> <<>>],
     [VS |-> <<"Subject_1", "Subject_2">>, CONTR |-> <<"Subject_3">>],
     [VS |-> <<>>, CONTR |-> <<>>]}

\* for subject in subjects: for data_file in INPUT_FILES
GroupJobs(group, subjects) ==
    [i \in 1 .. Len(subjects) * Len(INPUT_FILES) |->
        [group     |-> group,
         subject   |-> subjects[((i - 1) \div Len(INPUT_FILES)) + 1],
         data_file |-> INPUT_FILES[((i - 1) % Len(INPUT_FILES)) + 1]]]

\* for group, subjects in [('VS', SUBJECTS_VS), ('CONTR', SUBJECTS_CONTR)]
JobsOf(lists) == GroupJobs("VS", lists.VS) \o GroupJobs("CONTR", lists.CONTR)

\* the response columns load_subject_data selects, one per contrast level
RESPONSE_COLUMNS == <<"C5%", "C10%", "C20%", "C40%", "C80%">>

\* a row of the file: a value under "Base" and under the first Len(cells)
\* response columns
CsvRow(cells, base) ==
    [c \in {RESPONSE_COLUMNS[i] : i \in 1 .. Len(cells)} \cup {"Base"} |->
        IF c = "Base" THEN base
        ELSE cells[CHOOSE i \in 1 .. Len(cells) : RESPONSE_COLUMNS[i] = c]]

\* rows of <data_file>_<group>.csv a subject may have: three with every
\* column, one that lacks C80%, one that lacks C40% and C80%.  The cells
\* are held in units of 1e-12, so that the data and baseline "scaled by
\* 1e12" of load_subject_data are the numbers written here.
InputRows ==
    {CsvRow(<<Int2R(1), Int2R(1), Int2R(1), Int2R(1), Int2R(1)>>, Int2R(1)),
     CsvRow(<<Int2R(-1), Int2R(-2), Int2R(-1), Int2R(-1), Int2R(-1)>>, Int2R(-1)),
     CsvRow(<<R(1, 4), R(1, 2), Int2R(1), Int2R(2), Int2R(4)>>, Int2R(0)),
     CsvRow(<<R(1, 4), R(1, 2), Int2R(1), Int2R(2)>>, Int2R(0)),
     CsvRow(<<R(1, 4), R(1, 2), Int2R(1)>>, Int2R(0))}

\* mutant: the response columns the row has are taken, however many
load_subject_data_present(row) ==
    LET n == Cardinality(DOMAIN row \ {"Base"})
    IN  [ok       |-> TRUE,
         data     |-> [i \in 1 .. n |-> row[RESPONSE_COLUMNS[i]]],
         baseline |-> row["Base"]]

\* mutant: a column the row lacks is read as the baseline
load_subject_data_padded(row) ==
    [ok       |-> TRUE,
     data     |-> [i \in 1 .. Len(RESPONSE_COLUMNS) |->
                      IF RESPONSE_COLUMNS[i] \in DOMAIN row
                      THEN row[RESPONSE_COLUMNS[i]] ELSE row["Base"]],
     baseline |-> row["Base"]]

\* subject_data[[...five columns...]] and subject_data['Base']: selecting a
\* column the row lacks raises KeyError (ok is FALSE)
load_subject_data(row) ==
    IF \A i \in 1 .. Len(RESPONSE_COLUMNS) : RESPONSE_COLUMNS[i] \in DOMAIN row
    THEN [ok       |-> TRUE,
          data     |-> [i \in 1 .. Len(RESPONSE_COLUMNS) |-> row[RESPONSE_COLUMNS[i]]],
          baseline |-> row["Base"]]
    ELSE [ok |-> FALSE, data |-> <<>>, baseline |-> "none"]

\* points <<semisaturation, MAXampl, Saturation, baseline>> the optimizer's
\* internal variables may map to if no bound holds them back
IterCandidates ==
    {<<Int2R(0), Int2R(0), Int2R(0), Int2R(0)>>,
     <<Int2R(50), Int2R(2), Int2R(5), Int2R(1)>>,
     <<R(1, 10), Int2R(1), Int2R(1), Int2R(0)>>,
     <<R(-1, 2), Int2R(1), Int2R(1), Int2R(0)>>,
     <<Int2R(51), Int2R(1), Int2R(1), Int2R(0)>>,
     <<R(1, 10), Int2R(1), R(-1, 2), Int2R(0)>>,
     <<R(1, 10), Int2R(1), R(11, 2), Int2R(0)>>,
     <<R(1, 10), Int2R(-1), Int2R(1), Int2R(0)>>,
     <<R(1, 10), Int2R(1), Int2R(1), Int2R(-1)>>}

\* points the optimizer may return as the best fit
BestCandidates ==
    {<<Int2R(0), Int2R(1), Int2R(1), Int2R(0)>>,
     <<R(1, 10), Int2R(2), Int2R(1), Int2R(0)>>,
     <<Int2R(0), Int2R(5), R(1, 2), Int2R(0)>>,
     <<Int2R(50), Int2R(2), Int2R(0), Int2R(1)>>,
     <<Int2R(0), Int2R(1), Int2R(2), Int2R(0)>>,
     <<R(3, 10), Int2R(0), Int2R(1), Int2R(1)>>}

\* the optimizer moves the parameters that vary and leaves the others
AtPoint(p, v) ==
    SetValues(p,
              IF p.semisaturation.vary THEN v[1] ELSE p.semisaturation.value,
              IF p.MAXampl.vary THEN v[2] ELSE p.MAXampl.value,
              IF p.Saturation.vary THEN v[3] ELSE p.Saturation.value,
              IF p.baseline.vary THEN v[4] ELSE p.baseline.value)

Square(x) == RMul(x, x)

\* rss = (result.residual**2).sum()
RSS(resid) == NpSum([i \in DOMAIN resid |-> Square(resid[i])])

\* tss = sum(np.power(data - mean(data), 2))
TSS(d) == NpSum([i \in DOMAIN d |-> Square(RSub(d[i], NpMean(d)))])

\* mutant: the ratio taken upside down
RSquared_swapped(rss, tss) == RSub(Int2R(1), RDiv(tss, rss))

\* rsq = 1 - rss/tss
RSquared(rss, tss) == RSub(Int2R(1), RDiv(rss, tss))

\* the index given to the rows of the results frame, which the transpose
\* turns into the column names that follow "subj"
RESULT_INDEX == <<"AbN1_semi", "AbN1_Rmax", "AbN1_s", "AbN1_b", "AbN1_R2">>

\* the locals of process_subject once it has returned
LocalsGone ==
    /\ subject_data' = "none"
    /\ data' = <<>> /\ baseline' = "none" /\ params' = "none" /\ nfev' = 0
    /\ result' = "none" /\ gof' = "none"

InitFit ==
    /\ jobs \in {JobsOf(lists) : lists \in SubjectLists}
    /\ jobIdx = 1
    /\ pc = "main" /\ subject_data = "none"
    /\ data = <<>> /\ baseline = "none" /\ params = "none" /\ nfev = 0
    /\ result = "none" /\ gof = "none"
    /\ subject_ids = <<>> /\ all_results = <<>> /\ errlog = <<>>
    /\ csv = [written |-> FALSE, columns |-> <<>>, rows |-> <<>>]
    /\ CurveIdle
    /\ RtIdle
    /\ RestIdle

\* mutant: the exception is not caught and ends the script
HandleException_reraise ==
    /\ pc' = "crashed"
    /\ UNCHANGED <<jobs, jobIdx, subject_data, data, baseline, params, nfev, result, gof,
                   subject_ids, all_results, errlog, csv>>

\* except Exception as e: print(f"Error processing {subject}: ..."); return None
\* and, back in __main__, "if result:" skips the appends
HandleException ==
    /\ errlog' = Append(errlog, jobs[jobIdx].subject)
    /\ jobIdx' = jobIdx + 1
    /\ pc' = "main"
    /\ LocalsGone
    /\ UNCHANGED <<jobs, subject_ids, all_results, csv>>

\* process_subject is entered for the next triple; load_subject_data reads
\* the file and selects the subject's row
ReadRow ==
    /\ pc = "main"
    /\ jobIdx <= Len(jobs)
    /\ \E row \in InputRows : subject_data' = row
    /\ pc' = "load"
    /\ UNCHANGED <<jobs, jobIdx, data, baseline, params, nfev, result, gof,
                   subject_ids, all_results, errlog, csv>>

\* the data and the baseline are taken from the row, the parameters are
\* initialized and minimize() starts at the initial guess
LoadAndInitialize ==
    /\ pc = "load"
    /\ load_subject_data(subject_data).ok
    /\ data' = load_subject_data(subject_data).data
    /\ baseline' = load_subject_data(subject_data).baseline
    /\ params' = initialize_parameters(load_subject_data(subject_data).data,
                                       load_subject_data(subject_data).baseline)
    /\ nfev' = 0
    /\ pc' = "minimize"
    /\ subject_data' = "none"
    /\ UNCHANGED <<jobs, jobIdx, result, gof, subject_ids, all_results, errlog, csv>>

\* the row lacks a column load_subject_data selects: KeyError
ColumnsMissing ==
    /\ pc = "load"
    /\ ~load_subject_data(subject_data).ok
    /\ HandleException

\* the CSV file or the subject's row is missing: read_csv / iloc[0] raises
LoadFails ==
    /\ pc = "main"
    /\ jobIdx <= Len(jobs)
    /\ HandleException

\* minimize(): the optimizer moves to another point; lmfit maps its internal
\* variables into the bounds each parameter carries
OptimizerStep ==
    /\ pc = "minimize"
    /\ nfev < MaxNfev
    /\ \E v \in IterCandidates :
          /\ AllWithinBounds(AtPoint(params, v))
          /\ params' = AtPoint(params, v)
    /\ nfev' = nfev + 1
    /\ UNCHANGED <<jobs, jobIdx, pc, subject_data, data, baseline, result, gof,
                   subject_ids, all_results, errlog, csv>>

\* minimize() returns: result.params is the best point, result.residual the
\* residual function evaluated there.  It returns either converged or,
\* with its budget of evaluations used up, not converged: lmfit then sets
\* result.success to False and raises nothing.
OptimizerReturns ==
    /\ pc = "minimize"
    /\ \E v \in BestCandidates, success \in BOOLEAN :
          /\ AllWithinBounds(AtPoint(params, v))
          /\ ~success => nfev = MaxNfev
          /\ params' = AtPoint(params, v)
          /\ result' = [params   |-> AtPoint(params, v),
                        residual |-> residual(AtPoint(params, v), CONTRASTS, data),
                        success  |-> success]
    /\ pc' = "fitted"
    /\ UNCHANGED <<jobs, jobIdx, subject_data, data, baseline, nfev, gof,
                   subject_ids, all_results, errlog, csv>>

\* final_fit, fine_model, rss, tss, rsq
GoodnessOfFit ==
    /\ pc = "fitted"
    /\ gof' = [final_fit  |-> [i \in DOMAIN data |-> RSub(data[i], result.residual[i])],
               fine_model |-> naka_rushton(result.params, FINE_CONTRAST),
               rss        |-> RSS(result.residual),
               tss        |-> TSS(data),
               rsq        |-> RSquared(RSS(result.residual), TSS(data))]
    /\ pc' = "report"
    /\ UNCHANGED <<jobs, jobIdx, subject_data, data, baseline, params, nfev, result,
                   subject_ids, all_results, errlog, csv>>

\* mutant: fit_results lists MAXampl before semisaturation
ReportAndReturn_swapped ==
    /\ pc = "report"
    /\ subject_ids' = Append(subject_ids, jobs[jobIdx].subject)
    /\ all_results' = Append(all_results,
                             <<result.params.MAXampl.value,
                               result.params.semisaturation.value,
                               result.params.Saturation.value,
                               result.params.baseline.value,
                               gof.rsq>>)
    /\ jobIdx' = jobIdx + 1
    /\ pc' = "main"
    /\ LocalsGone
    /\ UNCHANGED <<jobs, errlog, csv>>

\* the report is created and saved, (subject, fit_results) is returned and
\* __main__ appends both
ReportAndReturn ==
    /\ pc = "report"
    /\ subject_ids' = Append(subject_ids, jobs[jobIdx].subject)
    /\ all_results' = Append(all_results,
                             <<result.params.semisaturation.value,
                               result.params.MAXampl.value,
                               result.params.Saturation.value,
                               result.params.baseline.value,
                               gof.rsq>>)
    /\ jobIdx' = jobIdx + 1
    /\ pc' = "main"
    /\ LocalsGone
    /\ UNCHANGED <<jobs, errlog, csv>>

\* creating, plotting or saving the report raises (e.g. the subject's
\* directory does not exist)
ReportFails ==
    /\ pc = "report"
    /\ HandleException

\* after the loops: "if all_results:" the table is built and written
SaveResults ==
    /\ pc = "main"
    /\ jobIdx > Len(jobs)
    /\ csv' = IF all_results # <<>>
              THEN [written |-> TRUE,
                    columns |-> <<"subj">> \o RESULT_INDEX,
                    rows    |-> [i \in DOMAIN all_results |->
                                    <<subject_ids[i]>> \o all_results[i]]]
              ELSE csv
    /\ pc' = "done"
    /\ UNCHANGED <<jobs, jobIdx, subject_data, data, baseline, params, nfev, result, gof,
                   subject_ids, all_results, errlog>>

NextFit ==
    \/ (ReadRow /\ UNCHANGED <<curveVars, rtVars, restVars>>)
    \/ (LoadAndInitialize /\ UNCHANGED <<curveVars, rtVars, restVars>>)
    \/ (ColumnsMissing /\ UNCHANGED <<curveVars, rtVars, restVars>>)
    \/ (LoadFails /\ UNCHANGED <<curveVars, rtVars, restVars>>)
    \/ (OptimizerStep /\ UNCHANGED <<curveVars, rtVars, restVars>>)
    \/ (OptimizerReturns /\ UNCHANGED <<curveVars, rtVars, restVars>>)
    \/ (GoodnessOfFit /\ UNCHANGED <<curveVars, rtVars, restVars>>)
    \/ (ReportAndReturn /\ UNCHANGED <<curveVars, rtVars, restVars>>)
    \/ (ReportFails /\ UNCHANGED <<curveVars, rtVars, restVars>>)
    \/ (SaveResults /\ UNCHANGED <<curveVars, rtVars, restVars>>)

SpecFit == InitFit /\ [][NextFit]_vars

(***************************************************************************)
(* Properties of the fit and of the batch (SpecFit).                       *)
(***************************************************************************)
Optimizing == pc \in {"minimize", "fitted", "report"}

Sum5(f) == RAdd(RAdd(RAdd(RAdd(f[1], f[2]), f[3]), f[4]), f[5])

\* the sums of squares as the claim words them, from the fitted parameters
ClaimedRSS ==
    Sum5([i \in 1 .. 5 |->
            Square(RSub(data[i], response(result.params, CONTRASTS[i])))])

ClaimedTSS ==
    Sum5([i \in 1 .. 5 |-> Square(RSub(data[i], RDiv(Sum5(data), Int2R(5))))])

\* C5: the reported R2 satisfies R2 * TSS = TSS - RSS, with RSS the sum over
\* the five contrast levels of (observed - predicted by the fitted
\* parameters)^2 and TSS the sum of (observed - mean(observed))^2.
C5_RSquaredFormula ==
    pc = "report" =>
        /\ Len(CONTRASTS) = 5 /\ Len(data) = 5
        /\ REq(gof.rss, ClaimedRSS)
        /\ REq(gof.tss, ClaimedTSS)
        /\ ~IsZero(ClaimedTSS)
              => REq(RMul(gof.rsq, ClaimedTSS), RSub(ClaimedTSS, ClaimedRSS))

C5_Witness ==
    /\ pc = "report"
    /\ Positive(gof.rss) /\ Positive(gof.tss)
    /\ Positive(gof.rsq) /\ RLess(gof.rsq, Int2R(1))

\* C6 as stated: R2 is a defined number, at most 1, and 1 only when every
\* residual is zero.
C6_RSquaredDefinedAtMostOne ==
    pc = "report" =>
        /\ IsFinite(gof.rsq)
        /\ RLeq(gof.rsq, Int2R(1))
        /\ REq(gof.rsq, Int2R(1)) => \A i \in 1 .. 5 : IsZero(result.residual[i])

\* C7: the declared bounds are semisaturation in [0, 50], saturationExponent
\* in [0, 5], baseline >= 0, maxAmplitude >= 0, and from the initial guess
\* to the returned result every parameter value lies within them.
C7_WithinDeclaredBounds ==
    Optimizing =>
        /\ params.semisaturation.min = Int2R(0) /\ params.semisaturation.max = Int2R(50)
        /\ params.Saturation.min = Int2R(0) /\ params.Saturation.max = Int2R(5)
        /\ params.baseline.min = Int2R(0) /\ params.MAXampl.min = Int2R(0)
        /\ RLeq(Int2R(0), params.semisaturation.value)
        /\ RLeq(params.semisaturation.value, Int2R(50))
        /\ RLeq(Int2R(0), params.Saturation.value)
        /\ RLeq(params.Saturation.value, Int2R(5))
        /\ RLeq(Int2R(0), params.baseline.value)
        /\ RLeq(Int2R(0), params.MAXampl.value)
        /\ pc \in {"fitted", "report"} => result.params = params

C7_Witness ==
    /\ pc = "minimize" /\ nfev > 0
    /\ RLess(NpMax(data), Int2R(0)) /\ RLess(baseline, Int2R(0))
    /\ params.semisaturation.value = Int2R(50)
    /\ params.Saturation.value = Int2R(5)

\* C8 as stated: during and after optimization semisaturation and
\* saturationExponent are strictly positive.
C8_StrictlyPositive ==
    Optimizing =>
        /\ Positive(params.semisaturation.value)
        /\ Positive(params.Saturation.value)

Subjects(js, k) == {js[i].subject : i \in 1 .. k}

\* C10: the script never ends on a subject's exception; every triple
\* processed so far either printed an error naming its subject or appended
\* a row, never both; after a failure the loop goes on, and it ends only
\* when every triple has been processed.
C10_FailureIsolated ==
    /\ pc # "crashed"
    /\ Len(subject_ids) = Len(all_results)
    /\ Len(errlog) + Len(subject_ids) = jobIdx - 1
    /\ Range(errlog) \cup Range(subject_ids) = Subjects(jobs, jobIdx - 1)
    /\ Range(errlog) \cap Range(subject_ids) = {}
    /\ (pc = "main" /\ jobIdx <= Len(jobs)) => ENABLED ReadRow
    /\ pc = "done" =>
          /\ jobIdx = Len(jobs) + 1
          /\ csv.written = (all_results # <<>>)
          /\ \A i \in DOMAIN csv.rows : csv.rows[i][1] \notin Range(errlog)

C10_Witness ==
    /\ pc = "done"
    /\ Len(jobs) = 3
    /\ errlog = <<jobs[2].subject>>
    /\ subject_ids = <<jobs[1].subject, jobs[3].subject>>
    /\ Len(csv.rows) = 2

\* the subjects of the triples, in processing order, whose processing
\* printed no error
FittedSubjects ==
    LET all == [i \in DOMAIN jobs |-> jobs[i].subject]
        Fitted(sub) == sub \notin Range(errlog)
    IN  SelectSeq(all, Fitted)

C11_TableWritten ==
    (pc = "done" /\ csv.written) =>
        /\ csv.columns = <<"subj", "AbN1_semi", "AbN1_Rmax", "AbN1_s", "AbN1_b", "AbN1_R2">>
        /\ Len(csv.rows) = Len(FittedSubjects)
        /\ \A i \in DOMAIN csv.rows :
              /\ Len(csv.rows[i]) = 6
              /\ csv.rows[i][1] = FittedSubjects[i]
              /\ csv.rows[i] = <<subject_ids[i]>> \o all_results[i]

C11_RowOfItsFit ==
    /\ Len(all_results') >= Len(all_results)
    /\ SubSeq(all_results', 1, Len(all_results)) = all_results
    /\ Len(all_results') > Len(all_results) =>
          /\ pc = "report"
          /\ Len(all_results') = Len(all_results) + 1
          /\ subject_ids' = Append(subject_ids, jobs[jobIdx].subject)
          /\ all_results'[Len(all_results')] =
                 <<result.params.semisaturation.value, result.params.MAXampl.value,
                   result.params.Saturation.value, result.params.baseline.value,
                   gof.rsq>>

\* C11: when the batch has written its table, the table has one row per
\* successfully fitted (subject, data file) pair, in processing order; a row
\* is appended only when a fit is reported, it holds the subject of that fit
\* followed by the fitted semisaturation, MAXampl, Saturation, baseline and
\* the R2 in that column order, and no row changes afterwards.
C11_OneRowPerFit == [](C11_TableWritten) /\ [][C11_RowOfItsFit]_vars

C11_Witness ==
    /\ pc = "done" /\ csv.written
    /\ Len(jobs) = 3 /\ Len(errlog) = 1
    /\ Len(csv.rows) = 2
    /\ csv.rows[1][1] = "Subject_1" /\ csv.rows[2][1] = "Subject_3"
    /\ csv.rows[1][2] # csv.rows[1][3]

\* C12 as stated: a batch in which no subject was fitted (the subject lists
\* are empty, or every fit failed) ends without error and has produced a
\* result table with no rows.
C12_EmptyTableProduced ==
    /\ pc # "crashed"
    /\ (pc = "done" /\ all_results = <<>>) =>
          /\ csv.written
          /\ csv.rows = <<>>

\* C13 as stated: when the optimizer has not converged within its budget,
\* the fit fails: no parameters and no R2 of that optimization are returned
\* to the batch or put in its results.
C13_Unconverged == pc \in {"fitted", "report"} /\ ~result.success

C13_NoRowWithoutConvergence ==
    [][C13_Unconverged => (all_results' = all_results /\ subject_ids' = subject_ids)]_vars

\* the number of responses the subject's row supplies
ResponseCells(row) == Cardinality(DOMAIN row \ {"Base"})

\* the step taken is the failure of the subject being processed: its error
\* is printed, nothing of it is appended, the loop is back in __main__
SubjectFails ==
    /\ pc' = "main"
    /\ jobIdx' = jobIdx + 1
    /\ errlog' = Append(errlog, jobs[jobIdx].subject)
    /\ all_results' = all_results
    /\ subject_ids' = subject_ids

C14_Mismatched == pc = "load" /\ ResponseCells(subject_data) # Len(CONTRASTS)

\* C14: a subject whose row supplies a number of responses different from
\* the number of contrast levels fails and yields no fit result, and the
\* optimizer only ever runs on as many responses as contrast levels.
C14_MismatchedLengthsFail ==
    /\ [](Optimizing => Len(data) = Len(CONTRASTS))
    /\ [][C14_Mismatched => SubjectFails]_vars

C14_Witness ==
    /\ pc = "load"
    /\ ResponseCells(subject_data) = 4
    /\ Len(CONTRASTS) = 5
    /\ ENABLED ColumnsMissing
    /\ ~ENABLED LoadAndInitialize

C15_TooFew == pc = "load" /\ ResponseCells(subject_data) < Cardinality(ParamNames)

\* C15: a subject whose row supplies fewer than 4 responses (the model has
\* 4 parameters) fails and yields no fit result, and the optimizer only
\* ever runs on at least 4 responses.
C15_TooFewSamplesFail ==
    /\ [](Optimizing => Len(data) >= Cardinality(ParamNames))
    /\ [][C15_TooFew => SubjectFails]_vars

C15_Witness ==
    /\ pc = "load"
    /\ ResponseCells(subject_data) = 3
    /\ Cardinality(ParamNames) = 4
    /\ jobIdx = 2 /\ Len(all_results) = 1
    /\ ENABLED ColumnsMissing
    /\ ~ENABLED LoadAndInitialize

\* the responses are exactly the model's at the returned parameters: they
\* are noise-free data of these parameters, and the fit has recovered them
C16_Recovered ==
    /\ pc = "report"
    /\ \A i \in DOMAIN data : REq(data[i], response(result.params, CONTRASTS[i]))

\* C16 as stated, for the fits that do recover the parameters the responses
\* were generated from without noise: the R2 of such a fit is 1.
C16_RoundTripRSquared == C16_Recovered => REq(gof.rsq, Int2R(1))

\* minimize() has been entered and the optimizer has not moved yet
C17_AtInitialGuess == pc = "minimize" /\ nfev = 0

RESPONSE_WINDOW == 1700

\* Python's None and a value that is not None
None == <<>>

Some(x) == <<x>>

\* the codes process_subject_log takes as grating events; they are also the
\* codes of the logs below that start with 'gr_'
GR_EVENTS == {"gr_0", "gr_1", "gr_2", "gr_3", "gr_4"}

MaxSegments == 3

\* the time from the start of one stretch of the log to the start of the next
SegmentSpan == 20000

\* stretches of a log file, as <<Code, Time - start of the stretch>>: a
\* grating followed by a response before the disappearance, at the end of
\* the response window, after the 'late' marker, just after the window,
\* 10000 after the disappearance, after the window but before the marker;
\* no response with and without the marker; a grating with no disappearance;
\* a block that no 'fix' or 'anim' closes; entries outside any block
Segments ==
    {<<<<"gr_0", 0>>, <<"16", 500>>, <<"disappear", 1000>>, <<"fix", 3000>>>>,
     <<<<"gr_1", 0>>, <<"disappear", 1000>>, <<"16", 1000 + RESPONSE_WINDOW>>, <<"fix", 3000>>>>,
     <<<<"gr_2", 0>>, <<"disappear", 1000>>, <<"late", 1001 + RESPONSE_WINDOW>>,
       <<"16", 2900>>, <<"fix", 3000>>>>,
     <<<<"gr_3", 0>>, <<"disappear", 1000>>, <<"16", 1001 + RESPONSE_WINDOW>>, <<"fix", 3000>>>>,
     <<<<"gr_4", 0>>, <<"disappear", 1000>>, <<"16", 11000>>, <<"anim", 12000>>>>,
     <<<<"gr_0", 0>>, <<"disappear", 1000>>, <<"16", 1001 + RESPONSE_WINDOW>>,
       <<"late", 2900>>, <<"fix", 3000>>>>,
     <<<<"gr_1", 0>>, <<"disappear", 1000>>, <<"late", 1001 + RESPONSE_WINDOW>>, <<"anim", 3000>>>>,
     <<<<"gr_2", 0>>, <<"disappear", 1000>>, <<"fix", 3000>>>>,
     <<<<"gr_3", 0>>, <<"fix", 3000>>>>,
     <<<<"gr_4", 0>>, <<"disappear", 1000>>, <<"16", 1500>>>>,
     <<<<"start", 0>>, <<"16", 100>>, <<"anim", 200>>>>}

RECURSIVE LogOf(_, _)
LogOf(segs, k) ==
    IF k > Len(segs) THEN <<>>
    ELSE [j \in 1 .. Len(segs[k]) |->
             <<segs[k][j][1], (k - 1) * SegmentSpan + segs[k][j][2]>>]
         \o LogOf(segs, k + 1)

\* log_data[["Code", "Time"]].transpose().values.tolist()
AsColumns(entries) ==
    <<[j \in DOMAIN entries |-> entries[j][1]],
      [j \in DOMAIN entries |-> Int2R(entries[j][2])]>>

Logs ==
    {AsColumns(LogOf(segs, 1)) :
        segs \in UNION {[1 .. n -> Segments] : n \in 0 .. MaxSegments}}

StartsWithGr(label) == label \in GR_EVENTS

\* mutant: the on-time check without its upper end
ClassifyResponse_open(disappear_time, response_time, late_time) ==
    IF disappear_time # None
    THEN IF response_time # None
         THEN LET d == disappear_time[1]
                  r == response_time[1]
                  time_diff == RSub(r, d)
              IN  IF RLess(r, d)
                  THEN [response_class |-> 0, time_diff |-> time_diff, line |-> 89]
                  ELSE IF RLeq(d, r)
                  THEN [response_class |-> 0, time_diff |-> time_diff, line |-> 91]
                  ELSE IF late_time # None /\ RLess(late_time[1], r)
                  THEN [response_class |-> 2, time_diff |-> time_diff, line |-> 93]
                  ELSE IF /\ RLess(RAdd(d, Int2R(RESPONSE_WINDOW)), r)
                          /\ late_time = None
                          /\ RLess(time_diff, Int2R(10000))
                  THEN [response_class |-> 1, time_diff |-> time_diff, line |-> 95]
                  ELSE [response_class |-> 2, time_diff |-> time_diff, line |-> 97]
         ELSE IF late_time # None
              THEN [response_class |-> 2, time_diff |-> NaN, line |-> 99]
              ELSE [response_class |-> 2, time_diff |-> NaN, line |-> 102]
    ELSE [response_class |-> 3, time_diff |-> NaN, line |-> 105]

\* "# Classify response": the class and the time difference of a parsed
\* block, and the source line that assigns the class
ClassifyResponse(disappear_time, response_time, late_time) ==
    IF disappear_time # None
    THEN IF response_time # None
         THEN LET d == disappear_time[1]
                  r == response_time[1]
                  time_diff == RSub(r, d)
              IN  IF RLess(r, d)
                  THEN [response_class |-> 0, time_diff |-> time_diff, line |-> 89]
                  ELSE IF RLeq(d, r) /\ RLeq(r, RAdd(d, Int2R(RESPONSE_WINDOW)))
                  THEN [response_class |-> 0, time_diff |-> time_diff, line |-> 91]
                  ELSE IF late_time # None /\ RLess(late_time[1], r)
                  THEN [response_class |-> 2, time_diff |-> time_diff, line |-> 93]
                  ELSE IF /\ RLess(RAdd(d, Int2R(RESPONSE_WINDOW)), r)
                          /\ late_time = None
                          /\ RLess(time_diff, Int2R(10000))
                  THEN [response_class |-> 1, time_diff |-> time_diff, line |-> 95]
                  ELSE [response_class |-> 2, time_diff |-> time_diff, line |-> 97]
         ELSE IF late_time # None
              THEN [response_class |-> 2, time_diff |-> NaN, line |-> 99]
              ELSE [response_class |-> 2, time_diff |-> NaN, line |-> 102]
    ELSE [response_class |-> 3, time_diff |-> NaN, line |-> 105]

\* the locals of classify_responses when the outer loop is first reached;
\* lines holds, for each class appended, the source line that assigned it
Locals0 ==
    [pc |-> "loop", i |-> 0,
     disappear_time |-> None, response_time |-> None, late_time |-> None,
     response_types |-> <<>>, time_differences |-> <<>>, lines |-> <<>>]

\* log_data[0][i] and log_data[1][i]
CodeAt(log, i) == log[1][i + 1]

TimeAt(log, i) == log[2][i + 1]

\* the condition of the inner loop
InBlock(log, st) ==
    st.i < Len(log[1]) /\ CodeAt(log, st.i) \notin {"fix", "anim"}

EnterBlock(st) ==
    [st EXCEPT !.pc = "block",
               !.disappear_time = None, !.response_time = None, !.late_time = None]

ParseEntry(log, st) ==
    LET current_label == CodeAt(log, st.i)
    IN  [st EXCEPT
            !.disappear_time = IF current_label = "disappear"
                               THEN Some(TimeAt(log, st.i)) ELSE @,
            !.response_time  = IF current_label = "16"
                               THEN Some(TimeAt(log, st.i)) ELSE @,
            !.late_time      = IF current_label = "late"
                               THEN Some(TimeAt(log, st.i)) ELSE @,
            !.i = @ + 1]

AppendClass(st) ==
    LET c == ClassifyResponse(st.disappear_time, st.response_time, st.late_time)
    IN  [st EXCEPT !.pc = "loop",
                   !.response_types = Append(@, c.response_class),
                   !.time_differences = Append(@, c.time_diff),
                   !.lines = Append(@, c.line)]

\* mutant: the else branch leaves i as it is
SkipEntry_stay(st) == st

SkipEntry(st) == [st EXCEPT !.i = @ + 1]

Return(st) == [st EXCEPT !.pc = "returned"]

\* one step of classify_responses
ClassifyStep(log, st) ==
    IF st.pc = "loop"
    THEN IF st.i < Len(log[1])
         THEN IF StartsWithGr(CodeAt(log, st.i)) THEN EnterBlock(st) ELSE SkipEntry(st)
         ELSE Return(st)
    ELSE IF InBlock(log, st) THEN ParseEntry(log, st) ELSE AppendClass(st)

RECURSIVE ClassifyRun(_, _)
ClassifyRun(log, st) ==
    IF st.pc = "returned" THEN st ELSE ClassifyRun(log, ClassifyStep(log, st))

classify_responses(log) ==
    <<ClassifyRun(log, Locals0).response_types,
      ClassifyRun(log, Locals0).time_differences>>

\* classify_responses called on a log, step by step
InitClassify ==
    /\ log_data \in Logs
    /\ cl = Locals0
    /\ MainIdle
    /\ CurveIdle
    /\ FitIdle
    /\ RestIdle

ClassifyUnchanged ==
    UNCHANGED <<log_data, rt_subjects, rt_logfiles, rt_idx, rt_pc,
                all_response_data, response_csv, curveVars, fitVars, restVars>>

\* while i < len(log_data[0]): if label.startswith('gr_'):
DoEnterBlock ==
    /\ cl.pc = "loop"
    /\ cl.i < Len(log_data[1])
    /\ StartsWithGr(CodeAt(log_data, cl.i))
    /\ cl' = EnterBlock(cl)
    /\ ClassifyUnchanged

\* one iteration of the inner loop
DoParseEntry ==
    /\ cl.pc = "block"
    /\ InBlock(log_data, cl)
    /\ cl' = ParseEntry(log_data, cl)
    /\ ClassifyUnchanged

\* the inner loop has ended: the block is classified and appended
DoAppendClass ==
    /\ cl.pc = "block"
    /\ ~InBlock(log_data, cl)
    /\ cl' = AppendClass(cl)
    /\ ClassifyUnchanged

\* else: i += 1
DoSkipEntry ==
    /\ cl.pc = "loop"
    /\ cl.i < Len(log_data[1])
    /\ ~StartsWithGr(CodeAt(log_data, cl.i))
    /\ cl' = SkipEntry(cl)
    /\ ClassifyUnchanged

\* the outer loop has ended: return response_types, time_differences
DoReturn ==
    /\ cl.pc = "loop"
    /\ cl.i >= Len(log_data[1])
    /\ cl' = Return(cl)
    /\ ClassifyUnchanged

NextClassify ==
    \/ DoEnterBlock
    \/ DoParseEntry
    \/ DoAppendClass
    \/ DoSkipEntry
    \/ DoReturn

SpecClassify == InitClassify /\ [][NextClassify]_vars

\* the call runs on its own thread of control until it returns
SpecClassifyFair == SpecClassify /\ WF_vars(NextClassify)

(***************************************************************************)
(* Properties of classify_responses (SpecClassify).                        *)
(***************************************************************************)
\* a block has been classified and its times are still in the locals
Classified == cl.pc \in {"loop", "returned"} /\ cl.lines # <<>>

LastLine == cl.lines[Len(cl.lines)]

BothTimes == cl.disappear_time # None /\ cl.response_time # None

\* the response came later than RESPONSE_WINDOW after the disappearance
AfterWindow ==
    RLess(RAdd(cl.disappear_time[1], Int2R(RESPONSE_WINDOW)), cl.response_time[1])

\* C18 as stated: at least one of the three later branches (lines 93, 95,
\* 97) classifies no block of any log.
C18_SomeLaterBranchDead == ~({93, 95, 97} \subseteq Range(cl.lines))

\* C18: for a block with both a disappear time and a response time, the
\* early-response check and the on-time check take exactly the responses
\* not later than RESPONSE_WINDOW after the disappearance; a later response
\* is classified by the later branches: after the 'late' marker by line 93,
\* with no marker and less than 10000 after the disappearance by line 95,
\* otherwise by line 97.
C18_LaterBranchesTakeLateResponses ==
    (Classified /\ BothTimes) =>
        /\ LastLine \in {89, 91, 93, 95, 97}
        /\ LastLine \in {89, 91} <=> ~AfterWindow
        /\ LastLine = 93 <=>
              /\ AfterWindow
              /\ cl.late_time # None
              /\ RLess(cl.late_time[1], cl.response_time[1])
        /\ LastLine = 95 <=>
              /\ AfterWindow
              /\ cl.late_time = None
              /\ RLess(RSub(cl.response_time[1], cl.disappear_time[1]), Int2R(10000))

C18_Witness ==
    /\ cl.pc = "returned"
    /\ cl.lines = <<93, 95, 97>>
    /\ cl.response_types = <<2, 1, 2>>

\* C19 as stated: a block whose response came before the disappearance
\* (classified at line 89, "Error (early response)") gets a class code
\* different from that of a block whose response came within
\* RESPONSE_WINDOW after it (line 91, "Correct response").
C19_EarlyDiffersFromCorrect ==
    \A j, k \in DOMAIN cl.lines :
        (cl.lines[j] = 89 /\ cl.lines[k] = 91) =>
            cl.response_types[j] # cl.response_types[k]

(***************************************************************************)
(* process_reaction_times.py: process_subject_log and main.                *)
(***************************************************************************)
\* ALL_SUBJECTS = HEALTHY_SUBJECTS + PATIENT_SUBJECTS: the lists of the
\* script, and other settings of the same two lists
RtSubjectLists ==
    {<<"Subject_1">> \o <<"Subject_2">>,
     <<"Subject_1", "S016">> \o <<"Subject_2">>,
     <<"S016">> \o <<"Subject_2">>,
     <<>> \o <<>>}

\* the subjects process_subject_log leaves out by name
EXCLUDED == {"S016", "S222"}

\* subject[1], the second character of the subject's name
SecondChar(subject) ==
    IF subject \in {"S016"} THEN "0"
    ELSE IF subject \in {"S222"} THEN "2"
    ELSE "u"

\* the log files a subject may have
BatchLogs ==
    {AsColumns(LogOf(<<seg>>, 1)) :
        seg \in {<<<<"gr_0", 0>>, <<"16", 500>>, <<"disappear", 1000>>, <<"fix", 3000>>>>,
                 <<<<"gr_3", 0>>, <<"fix", 3000>>>>}}
    \cup {AsColumns(<<>>)}

\* epochs.drop_log of a subject's epochs file: for each epoch, whether it
\* was dropped
DropLogs == {<<>>, <<FALSE, TRUE, FALSE>>}

\* [i for i, element in enumerate(epochs.drop_log) if not element]
ValidIndices(drop_log) ==
    LET Kept(i) == ~drop_log[i]
    IN  [j \in DOMAIN SelectSeq([i \in DOMAIN drop_log |-> i], Kept) |->
            SelectSeq([i \in DOMAIN drop_log |-> i], Kept)[j] - 1]

\* the entries of a list from position n on: list[n:]
DropFirst(list, n) ==
    IF Len(list) <= n THEN <<>> ELSE SubSeq(list, n + 1, Len(list))

\* what process_subject_log returns: four None when the subject has no log
\* file or is excluded, else grating_events, event_times, log_data.  The
\* log path is taken as configured: {path_to_original_data} in line 37
\* stands for the directory the user puts there, as in DATA_PATH.
process_subject_log(subject, logfile) ==
    IF logfile = None \/ subject \in EXCLUDED
    THEN <<None, None, None, None>>
    ELSE LET log == logfile[1]
             IsGrating(i) == log[1][i] \in GR_EVENTS
             idx == SelectSeq([i \in DOMAIN log[1] |-> i], IsGrating)
             grating_events == [j \in DOMAIN idx |-> log[1][idx[j]]]
             event_times == [j \in DOMAIN idx |-> log[2][idx[j]]]
         IN  IF subject = ""
             THEN <<Some(DropFirst(grating_events, 5)), Some(DropFirst(event_times, 5)), Some(log)>>
             ELSE <<Some(grating_events), Some(event_times), Some(log)>>

InitMain ==
    /\ rt_subjects \in RtSubjectLists
    /\ rt_logfiles \in [{rt_subjects[i] : i \in DOMAIN rt_subjects} ->
                           {None} \cup {Some(log) : log \in BatchLogs}]
    /\ rt_idx = 1
    /\ rt_pc = "main"
    /\ all_response_data = <<>>
    /\ response_csv = [written |-> FALSE, rows |-> <<>>]
    /\ ClassifyIdle
    /\ CurveIdle
    /\ FitIdle
    /\ RestIdle

MainUnchanged ==
    UNCHANGED <<log_data, cl, rt_subjects, rt_logfiles, curveVars, fitVars, restVars>>

\* the value process_subject_log returns to the iteration in progress
Returned == process_subject_log(rt_subjects[rt_idx], rt_logfiles[rt_subjects[rt_idx]])

\* grating_events, event_times, log_data = process_subject_log(subject):
\* the returned tuple does not have three elements, ValueError ends main
UnpackFails ==
    /\ rt_pc = "main"
    /\ rt_idx <= Len(rt_subjects)
    /\ Len(Returned) # 3
    /\ rt_pc' = "crashed"
    /\ UNCHANGED <<rt_idx, all_response_data, response_csv>>
    /\ MainUnchanged

\* if grating_events is None: continue.  No value process_subject_log
\* returns gets here: a tuple whose first element is None has four elements,
\* so this step is never enabled and is no part of NextMain.
SkipSubject ==
    /\ rt_pc = "main"
    /\ rt_idx <= Len(rt_subjects)
    /\ Len(Returned) = 3
    /\ Returned[1] = None
    /\ rt_idx' = rt_idx + 1
    /\ UNCHANGED <<rt_pc, all_response_data, response_csv>>
    /\ MainUnchanged

\* mne.read_epochs raises (the subject has no epochs file): main ends
ReadEpochsFails ==
    /\ rt_pc = "main"
    /\ rt_idx <= Len(rt_subjects)
    /\ Len(Returned) = 3
    /\ Returned[1] # None
    /\ rt_pc' = "crashed"
    /\ UNCHANGED <<rt_idx, all_response_data, response_csv>>
    /\ MainUnchanged

\* the epochs are read, the responses classified and the subject's
\* dictionary appended
StoreSubject ==
    /\ rt_pc = "main"
    /\ rt_idx <= Len(rt_subjects)
    /\ Len(Returned) = 3
    /\ Returned[1] # None
    /\ \E drop_log \in DropLogs :
          all_response_data' = Append(all_response_data,
              [subject          |-> rt_subjects[rt_idx],
               group            |-> IF SecondChar(rt_subjects[rt_idx]) = "0" THEN 0 ELSE 1,
               events           |-> Returned[1][1],
               times            |-> Returned[2][1],
               response_types   |-> classify_responses(Returned[3][1])[1],
               time_differences |-> classify_responses(Returned[3][1])[2],
               valid_indices    |-> ValidIndices(drop_log)])
    /\ rt_idx' = rt_idx + 1
    /\ UNCHANGED <<rt_pc, response_csv>>
    /\ MainUnchanged

\* after the loop: pd.DataFrame(all_response_data).to_csv(...)
SaveResponseTimes ==
    /\ rt_pc = "main"
    /\ rt_idx > Len(rt_subjects)
    /\ response_csv' = [written |-> TRUE, rows |-> all_response_data]
    /\ rt_pc' = "done"
    /\ UNCHANGED <<rt_idx, all_response_data>>
    /\ MainUnchanged

NextMain ==
    \/ UnpackFails
    \/ ReadEpochsFails
    \/ StoreSubject
    \/ SaveResponseTimes

SpecMain == InitMain /\ [][NextMain]_vars

(***************************************************************************)
(* Properties of main of process_reaction_times (SpecMain).                *)
(***************************************************************************)
\* the subject of the iteration in progress has no log file or is excluded
NoLogOrExcluded ==
    /\ rt_idx <= Len(rt_subjects)
    /\ \/ rt_logfiles[rt_subjects[rt_idx]] = None
       \/ rt_subjects[rt_idx] \in EXCLUDED

\* C20 as stated: main does not end at a subject whose log file is missing
\* or who is excluded; the subject is skipped, and when every subject has
\* been gone through the CSV is written.
C20_MissingLogSkipped ==
    /\ (rt_pc = "crashed") => ~NoLogOrExcluded
    /\ (rt_pc = "done") =>
          /\ response_csv.written
          /\ \A k \in DOMAIN response_csv.rows :
                /\ rt_logfiles[response_csv.rows[k].subject] # None
                /\ response_csv.rows[k].subject \notin EXCLUDED

\* what process_subject_log extracts from the log classify_responses is
\* working on (the subject is one that is not excluded)
ExtractedFromLog == process_subject_log("Subject_1", Some(log_data))

\* C25 as stated: when classify_responses has returned, it has returned as
\* many response classes and time differences as process_subject_log
\* extracts grating events and event times from the same log.
C25_ClassesAlignedWithEvents ==
    cl.pc = "returned" =>
        /\ Len(cl.response_types) = Len(ExtractedFromLog[1][1])
        /\ Len(cl.time_differences) = Len(ExtractedFromLog[2][1])

\* the locals when the outer loop's condition is next tested
RECURSIVE ToLoopHead(_, _)
ToLoopHead(log, st) ==
    IF st.pc = "loop" THEN st ELSE ToLoopHead(log, ClassifyStep(log, st))

\* the locals after the iteration of the outer loop that starts from st
OuterIteration(log, st) == ToLoopHead(log, ClassifyStep(log, st))

C26_IterationAdvances ==
    (cl.pc = "loop" /\ cl.i < Len(log_data[1])) =>
        LET after == OuterIteration(log_data, cl)
            n     == Len(cl.response_types)
        IN  /\ after.i > cl.i
            /\ after.i <= Len(log_data[1])
            /\ IF StartsWithGr(CodeAt(log_data, cl.i))
               THEN /\ Len(after.response_types) = n + 1
                    /\ Len(after.time_differences) = n + 1
                    /\ after.response_types[n + 1] \in {0, 1, 2, 3}
                    /\ SubSeq(after.response_types, 1, n) = cl.response_types
                    /\ SubSeq(after.time_differences, 1, n) = cl.time_differences
               ELSE /\ after.response_types = cl.response_types
                    /\ after.time_differences = cl.time_differences

\* C26: classify_responses returns on every log, also on one that ends
\* inside a block or has no 'fix' or 'anim': i never decreases, every
\* iteration of the outer loop ends with i greater than it began and within
\* the log, an iteration that parses a block appends exactly one class from
\* {0, 1, 2, 3} and one time difference, any other appends nothing.
C26_Terminates ==
    /\ [](C26_IterationAdvances)
    /\ [][cl'.i >= cl.i]_vars
    /\ <>(cl.pc = "returned")

C26_Witness ==
    /\ cl.pc = "returned"
    /\ log_data[1] = <<"gr_4", "disappear", "16", "gr_4", "disappear", "16">>
    /\ cl.i = 6
    /\ cl.response_types = <<0>>

(***************************************************************************)
(* 5_model_fitting.py: the report of a subject over repeated runs of       *)
(* process_subject (create_fitting_report, add_figure, save).              *)
(***************************************************************************)
MaxRuns == 3

\* the (group, subject, data_file) triples process_subject is run for
ReportJobs == JobsOf([VS |-> <<"Subject_1", "Subject_2">>, CONTR |-> <<"Subject_3">>])

\* subject_path = f"{BASE_DIR}{group}/{subject}/"
SubjectPath(job) == <<job.group, job.subject>>

\* report_file = f"{subject_path}Fit_{subject}.hdf5"
ReportFile(job) == <<SubjectPath(job), "Fit_", job.subject, ".hdf5">>

\* the two files the report is saved to
SavedHdf5(job) == <<SubjectPath(job), "Fit_smax2_Nmax1_min", job.subject, ".hdf5">>

SavedHtml(job) == <<SubjectPath(job), "Fit_smax2_Nmax1_min", job.subject, ".html">>

\* a report is the sequence of its figures; mne.Report(title=...) has none
NewReport == <<>>

\* the subject directories before the first run: some subjects have a
\* Fit_<subject>.hdf5 with one figure, left there by other work
InitialFiles ==
    {[name \in {ReportFile(ReportJobs[k]) : k \in have} |-> <<[title |-> "earlier", run |-> 0]>>] :
        have \in SUBSET DOMAIN ReportJobs}

InitReport ==
    /\ rep \in {[files |-> f, pc |-> "return", job |-> ReportJobs[1],
                 report |-> NewReport, runs |-> 0] : f \in InitialFiles}
    /\ CurveIdle
    /\ FitIdle
    /\ RtIdle
    /\ ep = "none" /\ psd = "none" /\ gp = "none" /\ bl = "none"

ReportUnchanged == UNCHANGED <<curveVars, fitVars, rtVars, ep, psd, gp, bl>>

\* process_subject is run for a triple and its fit succeeds
StartRun ==
    /\ rep.pc = "return"
    /\ rep.runs < MaxRuns
    /\ \E k \in DOMAIN ReportJobs :
          rep' = [rep EXCEPT !.pc = "fitted", !.job = ReportJobs[k], !.report = NewReport]
    /\ ReportUnchanged

\* report = create_fitting_report(subject_path, subject, data_file)
CreateFittingReport ==
    /\ rep.pc = "fitted"
    /\ rep' = [rep EXCEPT !.pc = "opened",
                          !.report = IF ReportFile(rep.job) \in DOMAIN rep.files
                                     THEN rep.files[ReportFile(rep.job)]
                                     ELSE NewReport]
    /\ ReportUnchanged

\* report.add_figure(fig, title=data_file, ...)
AddFigure ==
    /\ rep.pc = "opened"
    /\ rep' = [rep EXCEPT !.pc = "figure",
                          !.report = Append(@, [title |-> rep.job.data_file,
                                                run   |-> rep.runs + 1])]
    /\ ReportUnchanged

\* the two report.save(..., overwrite=True), then process_subject returns
SaveReport ==
    /\ rep.pc = "figure"
    /\ rep' = [rep EXCEPT
                  !.pc = "return",
                  !.runs = @ + 1,
                  !.files = [name \in DOMAIN rep.files
                                       \cup {SavedHdf5(rep.job), SavedHtml(rep.job)} |->
                                IF name \in {SavedHdf5(rep.job), SavedHtml(rep.job)}
                                THEN rep.report
                                ELSE rep.files[name]]]
    /\ ReportUnchanged

NextReport ==
    \/ StartRun
    \/ CreateFittingReport
    \/ AddFigure
    \/ SaveReport

SpecReport == InitReport /\ [][NextReport]_vars

\* C21 as stated: when process_subject is run for a subject whose report an
\* earlier run has saved, the report create_fitting_report opens is that
\* saved report, so the figures of the earlier runs are in it.
C21_OpensSavedReport ==
    (rep.pc = "opened" /\ SavedHdf5(rep.job) \in DOMAIN rep.files) =>
        rep.report = rep.files[SavedHdf5(rep.job)]

\* ---------------------------------------------------------------------------
\* create_epochs of 3_epoching_and_epochs_cleaning.py: the triggers of a
\* recording are cut into trials, and within each trial every EPOCH_STEP-th
\* trigger after the first ones is taken as the start of an epoch.
\* ---------------------------------------------------------------------------

EVENT_IDS == {1, 2, 3, 4, 5}
TRIGGER_DELAY == 50
SKIP_INITIAL == 5
EPOCH_LENGTH == 2000
EPOCH_STEP == 7

\* the number of trials of a recording
MaxTrials == 3

\* the sampling frequency of the recording (raw.info['sfreq'])
Sfreq == 1000

\* the pause between the last trigger of a trial and the first of the next,
\* and the code of a trigger that is not one of the conditions
TrialGap == 1500
OtherCode == 64

\* a trial of a recording: the number of its triggers and their distance in
\* samples. A whole trial of fourteen or twenty-one triggers, which lasts nine
\* or ten seconds, a trial that was broken off after seven triggers, and one
\* broken off after four.
TrialShapes ==
    {[n |-> 14, d |-> 700], [n |-> 21, d |-> 500],
     [n |-> 7, d |-> 500], [n |-> 4, d |-> 500]}

\* the sample of the first trigger of a recording
FirstSamples == {500, 2000}

\* the triggers of one trial which starts at sample s: its condition triggers
\* and, after them, one trigger of another code
TrialEvents(shape, s, code) ==
    [j \in 1..(shape.n + 1) |->
        IF j <= shape.n
        THEN [sample |-> s + (j - 1) * shape.d, code |-> code]
        ELSE [sample |-> s + (shape.n - 1) * shape.d + 200, code |-> OtherCode]]

RECURSIVE RecordingEvents(_, _, _)
RecordingEvents(shapes, s, k) ==
    IF shapes = <<>> THEN <<>>
    ELSE LET tr == TrialEvents(Head(shapes), s, ((k - 1) % 5) + 1)
         IN  tr \o RecordingEvents(Tail(shapes),
                                   tr[Head(shapes).n].sample + TrialGap, k + 1)

\* mne.find_events: the triggers of the recordings, one with no trial at all
Recordings ==
    {RecordingEvents(shapes, s, 1) :
        shapes \in UNION {[1..m -> TrialShapes] : m \in 1..MaxTrials},
        s \in FirstSamples}
    \cup {<<[sample |-> 3000, code |-> OtherCode]>>}

\* events[:, 0] += int(TRIGGER_DELAY / 1000 * raw.info['sfreq'])
DelayEvents(events) ==
    [i \in DOMAIN events |->
        [events[i] EXCEPT !.sample = @ + (TRIGGER_DELAY * Sfreq) \div 1000]]

\* valid_events = [e for e in events if e[2] in EVENT_IDS.values()]
ValidEvents(events) == SelectSeq(events, LAMBDA e : e.code \in EVENT_IDS)

\* np.diff(valid_events[:, 0], prepend=0)
Intervals(valid_events) ==
    [i \in DOMAIN valid_events |->
        valid_events[i].sample - (IF i = 1 THEN 0 ELSE valid_events[i - 1].sample)]

RECURSIVE Where(_, _)
\* np.where(events_with_intervals[:, 3] > 1000)[0]: the positions, counted
\* from 0, of the intervals above 1000, in rising order
Where(intervals, i) ==
    IF i > Len(intervals) THEN <<>>
    ELSE (IF intervals[i] > 1000 THEN <<i - 1>> ELSE <<>>) \o Where(intervals, i + 1)

\* if trial_starts[0] != 0: trial_starts = np.insert(trial_starts, 0, 0)
TrialStarts(valid_events) ==
    LET found == Where(Intervals(valid_events), 1)
    IN  IF found[1] /= 0 THEN <<0>> \o found ELSE found

\* valid_events[pos, 0] for a position counted from 0
SampleAt(pos) == ep.valid_events[pos + 1].sample

InitEpochs ==
    /\ ep \in {[pc |-> "events", line |-> 53, events |-> r, valid_events |-> <<>>,
                trial_starts |-> <<>>, t |-> 1, start_idx |-> 0, current_pos |-> 0,
                start_sample |-> 0, epoch_events |-> <<>>, picked |-> <<>>]
               : r \in Recordings}
    /\ CurveIdle
    /\ FitIdle
    /\ RtIdle
    /\ rep = "none" /\ psd = "none" /\ gp = "none" /\ bl = "none"

EpochsUnchanged == UNCHANGED <<curveVars, fitVars, rtVars, rep, psd, gp, bl>>

\* lines 53-68 when no trigger is of a condition (valid_events has one
\* dimension, valid_events[:, 0] raises IndexError) or no interval is above
\* 1000 (trial_starts is empty, trial_starts[0] raises IndexError)
FindTrialStartsFails ==
    /\ ep.pc = "events"
    /\ LET valid_events == ValidEvents(DelayEvents(ep.events))
       IN  \/ /\ valid_events = <<>>
              /\ ep' = [ep EXCEPT !.pc = "IndexError", !.line = 62]
           \/ /\ valid_events /= <<>>
              /\ Where(Intervals(valid_events), 1) = <<>>
              /\ ep' = [ep EXCEPT !.pc = "IndexError", !.line = 67,
                                  !.valid_events = valid_events]
    /\ EpochsUnchanged

\* lines 53-71
FindTrialStarts ==
    /\ ep.pc = "events"
    /\ LET valid_events == ValidEvents(DelayEvents(ep.events))
       IN  /\ valid_events /= <<>>
           /\ Where(Intervals(valid_events), 1) /= <<>>
           /\ ep' = [ep EXCEPT !.pc = "for", !.line = 72,
                               !.valid_events = valid_events,
                               !.trial_starts = TrialStarts(valid_events),
                               !.t = 1, !.epoch_events = <<>>]
    /\ EpochsUnchanged

\* lines 72-74: the next trial
EnterTrial ==
    /\ ep.pc = "for"
    /\ ep.t <= Len(ep.trial_starts)
    /\ LET start_idx == ep.trial_starts[ep.t]
       IN  ep' = [ep EXCEPT !.pc = "while", !.line = 77,
                            !.start_idx = start_idx,
                            !.current_pos = start_idx + 1 + SKIP_INITIAL,
                            !.start_sample = ep.valid_events[start_idx + 1].sample]
    /\ EpochsUnchanged

\* line 77 when current_pos is not a position of valid_events
WhileReadFails ==
    /\ ep.pc = "while"
    /\ ep.current_pos >= Len(ep.valid_events)
    /\ ep' = [ep EXCEPT !.pc = "IndexError", !.line = 77]
    /\ EpochsUnchanged

\* lines 77-79: the trigger at current_pos is taken as an epoch
AppendEpoch ==
    /\ ep.pc = "while"
    /\ ep.current_pos < Len(ep.valid_events)
    /\ SampleAt(ep.current_pos) - ep.start_sample < 10000 - EPOCH_LENGTH
    /\ ep' = [ep EXCEPT !.epoch_events = Append(@, ep.valid_events[ep.current_pos + 1]),
                        !.picked = Append(@, [trial |-> ep.start_idx,
                                              pos |-> ep.current_pos]),
                        !.current_pos = @ + EPOCH_STEP]
    /\ EpochsUnchanged

\* line 77 when the condition of the loop is false: on to the next trial
ExitTrial ==
    /\ ep.pc = "while"
    /\ ep.current_pos < Len(ep.valid_events)
    /\ ~(SampleAt(ep.current_pos) - ep.start_sample < 10000 - EPOCH_LENGTH)
    /\ ep' = [ep EXCEPT !.pc = "for", !.line = 72, !.t = @ + 1]
    /\ EpochsUnchanged

\* lines 82-96: the epochs are made of epoch_events and saved
SaveEpochs ==
    /\ ep.pc = "for"
    /\ ep.t > Len(ep.trial_starts)
    /\ ep' = [ep EXCEPT !.pc = "return", !.line = 96]
    /\ EpochsUnchanged

NextEpochs ==
    \/ FindTrialStartsFails
    \/ FindTrialStarts
    \/ EnterTrial
    \/ WhileReadFails
    \/ AppendEpoch
    \/ ExitTrial
    \/ SaveEpochs

SpecEpochs == InitEpochs /\ [][NextEpochs]_vars

\* the position, counted from 0, of the first trigger of the trial after the
\* one which starts at start_idx; the length of valid_events for the last
NextTrialStart(start_idx) ==
    LET later == {ep.trial_starts[i] : i \in DOMAIN ep.trial_starts} \cap
                 {p \in 0..Len(ep.valid_events) : p > start_idx}
    IN  IF later = {} THEN Len(ep.valid_events)
        ELSE CHOOSE p \in later : \A q \in later : p <= q

FirstOfTrial(k) == k = 1 \/ ep.picked[k - 1].trial /= ep.picked[k].trial

\* C22: the first trigger taken as an epoch in a trial is the one
\* SKIP_INITIAL positions after the first trigger of the trial, and each
\* further one of the trial is EPOCH_STEP positions after the one before
C22_SkipsFiveTriggers ==
    ep.pc \in {"for", "while", "return", "IndexError"} =>
        \A k \in DOMAIN ep.picked :
            IF FirstOfTrial(k)
            THEN ep.picked[k].pos = ep.picked[k].trial + SKIP_INITIAL
            ELSE ep.picked[k].pos = ep.picked[k - 1].pos + EPOCH_STEP

\* C27: for a recording with a trigger of a condition, the loop over the
\* triggers of a trial never reads valid_events at a position past its last
C27_LoopStaysInEvents ==
    ~(ep.pc = "IndexError" /\ ep.line = 77)

\* C28: every trigger taken as an epoch of a trial is at or after the first
\* trigger of that trial and before the first trigger of the next trial, and
\* no trigger is taken twice
C28_EpochsWithinTrial ==
    ep.pc \in {"for", "while", "return", "IndexError"} =>
        /\ \A k \in DOMAIN ep.picked :
              /\ ep.picked[k].pos >= ep.picked[k].trial
              /\ ep.picked[k].pos < NextTrialStart(ep.picked[k].trial)
        /\ \A k, l \in DOMAIN ep.epoch_events :
              k /= l => ep.epoch_events[k] /= ep.epoch_events[l]

\* ---------------------------------------------------------------------------
\* The batch of 4_psd_analysis.py: every subject of SUBJECTS is processed, the
\* Appelbaum metrics of the subjects are gathered and written as a table.
\* ---------------------------------------------------------------------------

\* the number of subjects of SUBJECTS
MaxSubjects == 3

PsdSubjects == <<"Subject_1", "Subject_2", "Subject_3", "Subject_4">>

\* SUBJECTS: a list of subject IDs
PsdSubjectLists == {SubSeq(PsdSubjects, 1, m) : m \in 1..MaxSubjects}

\* what the files of a subject allow: the whole analysis, no loading of the
\* epochs (load_epochs raises), or loading but no analysis (a later call of
\* process_subject raises)
Outcomes == {"ok", "load_fails", "analysis_fails"}

APPELBAUM_COLUMNS == <<"Base", "C5%", "C10%", "C20%", "C40%", "C80%">>

SubjectNumber(subject) == CHOOSE k \in DOMAIN PsdSubjects : PsdSubjects[k] = subject

\* calculate_appelbaum_metric on the epochs of a subject: the baseline and the
\* five signal powers, which differ from subject to subject
calculate_appelbaum_metric(subject) ==
    [c \in DOMAIN APPELBAUM_COLUMNS |-> 10 * SubjectNumber(subject) + c]

\* process_subject: the metrics, or None when anything in it raises
psd_process_subject(subject, outcome) ==
    IF outcome = "ok" THEN Some(calculate_appelbaum_metric(subject)) ELSE None

InitPsd ==
    /\ psd \in UNION {{[SUBJECTS |-> subjects, outcome |-> o, i |-> 1, pc |-> "loop",
                        group_avg_powers |-> <<>>, appelbaum_results |-> <<>>,
                        epochs |-> None, group_report |-> FALSE,
                        csv |-> [written |-> FALSE, rows |-> <<>>]]
                       : o \in [DOMAIN subjects -> Outcomes]}
                      : subjects \in PsdSubjectLists}
    /\ CurveIdle
    /\ FitIdle
    /\ RtIdle
    /\ rep = "none" /\ ep = "none" /\ gp = "none" /\ bl = "none"

PsdUnchanged == UNCHANGED <<curveVars, fitVars, rtVars, rep, ep, gp, bl>>

\* lines 227-230 for a subject whose analysis succeeds
ProcessSubject ==
    /\ psd.pc = "loop"
    /\ psd.i <= Len(psd.SUBJECTS)
    /\ LET res == psd_process_subject(psd.SUBJECTS[psd.i], psd.outcome[psd.i])
       IN  /\ res /= None
           /\ psd' = [psd EXCEPT !.appelbaum_results = Append(@, res[1]),
                                 !.i = @ + 1]
    /\ PsdUnchanged

\* lines 227-229 for a subject of which process_subject returns None
ProcessSubjectFails ==
    /\ psd.pc = "loop"
    /\ psd.i <= Len(psd.SUBJECTS)
    /\ psd_process_subject(psd.SUBJECTS[psd.i], psd.outcome[psd.i]) = None
    /\ psd' = [psd EXCEPT !.i = @ + 1]
    /\ PsdUnchanged

\* line 233: the epochs of the last subject are loaded, outside any try
LoadLastEpochs ==
    /\ psd.pc = "loop"
    /\ psd.i > Len(psd.SUBJECTS)
    /\ psd.outcome[Len(psd.SUBJECTS)] /= "load_fails"
    /\ psd' = [psd EXCEPT !.pc = "group",
                          !.epochs = Some(psd.SUBJECTS[Len(psd.SUBJECTS)])]
    /\ PsdUnchanged

\* line 233 when the epochs of the last subject cannot be loaded
LoadLastEpochsFails ==
    /\ psd.pc = "loop"
    /\ psd.i > Len(psd.SUBJECTS)
    /\ psd.outcome[Len(psd.SUBJECTS)] = "load_fails"
    /\ psd' = [psd EXCEPT !.pc = "raised"]
    /\ PsdUnchanged

\* lines 236-238 when group_avg_powers is not empty. Nothing in the script
\* appends to group_avg_powers, so this never happens: the step is not part
\* of NextPsd.
CreateGroupReport ==
    /\ psd.pc = "group"
    /\ Len(psd.group_avg_powers) > 0
    /\ psd' = [psd EXCEPT !.pc = "save", !.group_report = TRUE]
    /\ PsdUnchanged

\* line 236 when group_avg_powers is empty
NoGroupReport ==
    /\ psd.pc = "group"
    /\ ~(Len(psd.group_avg_powers) > 0)
    /\ psd' = [psd EXCEPT !.pc = "save"]
    /\ PsdUnchanged

\* results_df.insert(0, 'subj', SUBJECTS[:len(appelbaum_results)])
InsertSubj(results, subjects) ==
    [k \in DOMAIN results |-> [subj |-> subjects[k], values |-> results[k]]]

\* lines 241-253
SaveAppelbaum ==
    /\ psd.pc = "save"
    /\ psd.appelbaum_results /= <<>>
    /\ psd' = [psd EXCEPT !.pc = "done",
                          !.csv = [written |-> TRUE,
                                   rows |-> InsertSubj(psd.appelbaum_results,
                                       SubSeq(psd.SUBJECTS, 1,
                                              Len(psd.appelbaum_results)))]]
    /\ PsdUnchanged

\* line 241 when no subject gave a result
NoAppelbaum ==
    /\ psd.pc = "save"
    /\ psd.appelbaum_results = <<>>
    /\ psd' = [psd EXCEPT !.pc = "done"]
    /\ PsdUnchanged

NextPsd ==
    \/ ProcessSubject
    \/ ProcessSubjectFails
    \/ LoadLastEpochs
    \/ LoadLastEpochsFails
    \/ NoGroupReport
    \/ SaveAppelbaum
    \/ NoAppelbaum

SpecPsd == InitPsd /\ [][NextPsd]_vars

\* C23: when the loop over the subjects has ended with a result of at least
\* one subject and the script has run to its end, create_group_report was
\* called
C23_GroupReportCreated ==
    (psd.pc = "done" /\ psd.appelbaum_results /= <<>>) => psd.group_report

\* C24: every row of the table of Appelbaum metrics holds, under 'subj', the
\* subject of whose epochs its values were computed
C24_RowsLabelledWithTheirSubject ==
    (psd.pc = "done" /\ psd.csv.written) =>
        \A k \in DOMAIN psd.csv.rows :
            psd.csv.rows[k].values = calculate_appelbaum_metric(psd.csv.rows[k].subj)

\* ---------------------------------------------------------------------------
\* process_subject_epochs and the loop of analyze_single_trials of
\* 4_analyze_gamma_power.py: the indices of the clean epochs of a subject, the
\* correction of the indices for some subjects, and one row per index.
\* ---------------------------------------------------------------------------

\* the subjects of the special case of process_subject_epochs, and their cutoffs
cutoff_values ==
    [S036 |-> 109, S205 |-> 0, S211 |-> 260, S216 |-> 361, S224 |-> 326]

\* the subjects given to process_subject_epochs: the five of the special case
\* and one of ALL_SUBJECTS
GammaSubjects == DOMAIN cutoff_values \cup {"Subject_1"}

\* how many epochs after the cutoff may be clean
CleanAfter == 2

\* the indices of the epochs of a subject which may be clean: those around
\* the cutoff of the subject, and the first ones for a subject with no cutoff
CleanWindow(subject) ==
    LET cutoff == IF subject \in DOMAIN cutoff_values THEN cutoff_values[subject] ELSE 1
    IN  {i \in (cutoff - 1)..(cutoff + CleanAfter) : i >= 0}

\* epochs.drop_log with the epochs of clean kept and every other one dropped:
\* the entry of a kept epoch is empty
DropLog(subject, clean) ==
    LET last == CHOOSE m \in CleanWindow(subject) : \A i \in CleanWindow(subject) : i <= m
    IN  [k \in 1..(last + 1) |-> IF (k - 1) \in clean THEN <<>> ELSE <<"USER">>]

RECURSIVE Ascending(_)
\* the numbers of a set in rising order
Ascending(S) ==
    IF S = {} THEN <<>>
    ELSE LET least == CHOOSE i \in S : \A j \in S : i <= j
         IN  <<least>> \o Ascending(S \ {least})

\* [i for i, element in enumerate(epochs.drop_log) if not element]
Enumerate(drop_log) ==
    Ascending({k - 1 : k \in {j \in DOMAIN drop_log : drop_log[j] = <<>>}})

\* [i-1 if i > cutoff else i for i in clean_indices]
CorrectIndices(clean_indices, cutoff) ==
    [k \in DOMAIN clean_indices |->
        IF clean_indices[k] > cutoff THEN clean_indices[k] - 1 ELSE clean_indices[k]]

\* process_subject_epochs
process_subject_epochs(drop_log, subject) ==
    LET clean_indices == Enumerate(drop_log)
    IN  IF subject \in DOMAIN cutoff_values
        THEN CorrectIndices(clean_indices, cutoff_values[subject])
        ELSE clean_indices

InitGamma ==
    /\ gp \in UNION {{[subject |-> subject, drop_log |-> DropLog(subject, clean),
                       pc |-> "call", clean_indices |-> <<>>, k |-> 1,
                       trial_num |-> <<>>]
                      : clean \in SUBSET CleanWindow(subject)}
                     : subject \in GammaSubjects}
    /\ CurveIdle
    /\ FitIdle
    /\ RtIdle
    /\ rep = "none" /\ ep = "none" /\ psd = "none" /\ bl = "none"

GammaUnchanged == UNCHANGED <<curveVars, fitVars, rtVars, rep, ep, psd, bl>>

\* clean_indices = process_subject_epochs(epochs, all_epochs, subject)
ProcessSubjectEpochs ==
    /\ gp.pc = "call"
    /\ gp' = [gp EXCEPT !.pc = "trials", !.k = 1,
                        !.clean_indices = process_subject_epochs(gp.drop_log, gp.subject)]
    /\ GammaUnchanged

\* one turn of for trial_idx in clean_indices: the row of the trial
AnalyzeTrial ==
    /\ gp.pc = "trials"
    /\ gp.k <= Len(gp.clean_indices)
    /\ gp' = [gp EXCEPT !.trial_num = Append(@, gp.clean_indices[gp.k]),
                        !.k = @ + 1]
    /\ GammaUnchanged

\* return results
ReturnResults ==
    /\ gp.pc = "trials"
    /\ gp.k > Len(gp.clean_indices)
    /\ gp' = [gp EXCEPT !.pc = "return"]
    /\ GammaUnchanged

NextGamma ==
    \/ ProcessSubjectEpochs
    \/ AnalyzeTrial
    \/ ReturnResults

SpecGamma == InitGamma /\ [][NextGamma]_vars

\* C29: for a subject of the special case, the corrected indices of the
\* clean epochs are not negative and no two of them are the same
C29_CorrectedIndicesDistinct ==
    (gp.pc \in {"trials", "return"} /\ gp.subject \in DOMAIN cutoff_values) =>
        /\ \A k \in DOMAIN gp.clean_indices : gp.clean_indices[k] >= 0
        /\ \A k, l \in DOMAIN gp.clean_indices :
              k /= l => gp.clean_indices[k] /= gp.clean_indices[l]

\* ---------------------------------------------------------------------------
\* add_block_information of enhance_behavioral_data.py: every epoch of the
\* table of reaction times gets the number of the block it belongs to, from
\* the lengths of the blocks of its subject in break_info.
\* ---------------------------------------------------------------------------

\* the largest length of a block in break_info
MaxCount == 2

BlockSubjects == <<"Subject_1", "Subject_2">>

\* the values of orderN of the epochs of a subject: one more than the three
\* blocks can hold
BlockOrders == 0..(3 * MaxCount)

\* the table given to add_block_information: the epochs of the subjects,
\* subject after subject
BlockTable ==
    [k \in 1..(Len(BlockSubjects) * Cardinality(BlockOrders)) |->
        [subject |-> BlockSubjects[((k - 1) \div Cardinality(BlockOrders)) + 1],
         orderN |-> (k - 1) % Cardinality(BlockOrders)]]

\* a row of break_info: epoch_before_break1, epoch_before_break2, epoch_after
BreakRows == [break1 : 0..MaxCount, break2 : 0..MaxCount, total : 0..MaxCount]

\* break_info: a row for every subject of the table, or for the first only
BreakInfos ==
    [{BlockSubjects[1], BlockSubjects[2]} -> BreakRows] \cup
    [{BlockSubjects[1]} -> BreakRows]

RECURSIVE Unique(_, _)
\* df['subject'].unique(): the subjects in the order of their first row
Unique(df, k) ==
    IF k > Len(df) THEN <<>>
    ELSE LET rest == Unique(df, k + 1)
         IN  <<df[k].subject>> \o SelectSeq(rest, LAMBDA x : x /= df[k].subject)

\* the three masks of lines 77-81 for a value of orderN
BlockMask(n, orderN, b) ==
    CASE n = 1 -> orderN < b.break1
      [] n = 2 -> orderN >= b.break1 /\ orderN < b.break1 + b.break2
      [] n = 3 -> /\ orderN >= b.break1 + b.break2
                  /\ orderN < b.break1 + b.break2 + b.total

AssignBlock_upto(df, subject, b, n) ==
    [k \in DOMAIN df |->
        IF df[k].subject = subject /\
           (CASE n = 1 -> df[k].orderN <= b.break1
              [] n = 2 -> df[k].orderN >= b.break1 /\ df[k].orderN <= b.break1 + b.break2
              [] n = 3 -> /\ df[k].orderN >= b.break1 + b.break2
                          /\ df[k].orderN <= b.break1 + b.break2 + b.total)
        THEN [df[k] EXCEPT !.block_num = n]
        ELSE df[k]]

\* df.loc[subject_mask & <the n-th mask>, 'block_num'] = n
AssignBlock(df, subject, b, n) ==
    [k \in DOMAIN df |->
        IF df[k].subject = subject /\ BlockMask(n, df[k].orderN, b)
        THEN [df[k] EXCEPT !.block_num = n]
        ELSE df[k]]

InitBlocks ==
    /\ bl \in {[pc |-> "call", df |-> BlockTable, break_info |-> info,
                subjects |-> <<>>, s |-> 1, subject_info |-> None]
               : info \in BreakInfos}
    /\ CurveIdle
    /\ FitIdle
    /\ RtIdle
    /\ rep = "none" /\ ep = "none" /\ psd = "none" /\ gp = "none"

BlocksUnchanged == UNCHANGED <<curveVars, fitVars, rtVars, rep, ep, psd, gp>>

\* lines 67-69: the column block_num, all 0, and the subjects of the table
AddColumn ==
    /\ bl.pc = "call"
    /\ bl' = [bl EXCEPT !.pc = "for", !.s = 1, !.subjects = Unique(bl.df, 1),
                        !.df = [k \in DOMAIN bl.df |->
                                   [subject |-> bl.df[k].subject,
                                    orderN |-> bl.df[k].orderN,
                                    block_num |-> 0]]]
    /\ BlocksUnchanged

\* lines 69-76: the row of the next subject in break_info
ReadBreaks ==
    /\ bl.pc = "for"
    /\ bl.s <= Len(bl.subjects)
    /\ bl.subjects[bl.s] \in DOMAIN bl.break_info
    /\ bl' = [bl EXCEPT !.pc = "assign1",
                        !.subject_info = Some(bl.break_info[bl.subjects[bl.s]])]
    /\ BlocksUnchanged

\* line 70 for a subject with no row in break_info: .iloc[0] raises IndexError
ReadBreaksFails ==
    /\ bl.pc = "for"
    /\ bl.s <= Len(bl.subjects)
    /\ bl.subjects[bl.s] \notin DOMAIN bl.break_info
    /\ bl' = [bl EXCEPT !.pc = "IndexError"]
    /\ BlocksUnchanged

\* line 77
AssignBlock1 ==
    /\ bl.pc = "assign1"
    /\ bl' = [bl EXCEPT !.pc = "assign2",
                        !.df = AssignBlock(@, bl.subjects[bl.s], bl.subject_info[1], 1)]
    /\ BlocksUnchanged

\* lines 78-79
AssignBlock2 ==
    /\ bl.pc = "assign2"
    /\ bl' = [bl EXCEPT !.pc = "assign3",
                        !.df = AssignBlock(@, bl.subjects[bl.s], bl.subject_info[1], 2)]
    /\ BlocksUnchanged

\* lines 80-81, and on to the next subject
AssignBlock3 ==
    /\ bl.pc = "assign3"
    /\ bl' = [bl EXCEPT !.pc = "for", !.s = @ + 1,
                        !.df = AssignBlock(@, bl.subjects[bl.s], bl.subject_info[1], 3)]
    /\ BlocksUnchanged

\* line 83
ReturnTable ==
    /\ bl.pc = "for"
    /\ bl.s > Len(bl.subjects)
    /\ bl' = [bl EXCEPT !.pc = "return"]
    /\ BlocksUnchanged

NextBlocks ==
    \/ AddColumn
    \/ ReadBreaks
    \/ ReadBreaksFails
    \/ AssignBlock1
    \/ AssignBlock2
    \/ AssignBlock3
    \/ ReturnTable

SpecBlocks == InitBlocks /\ [][NextBlocks]_vars

\* the block of an epoch as the lengths of the blocks give it
BlockOf(orderN, b) ==
    IF orderN < b.break1 THEN 1
    ELSE IF orderN < b.break1 + b.break2 THEN 2
    ELSE IF orderN < b.break1 + b.break2 + b.total THEN 3
    ELSE 0

\* the table with block_num 0 after the three assignments were made, for
\* every subject, in the order order
RECURSIVE AssignedInOrder(_, _, _)
AssignedInOrder(df, i, order) ==
    IF i > Len(bl.subjects) THEN df
    ELSE LET b == bl.break_info[bl.subjects[i]]
             su == bl.subjects[i]
         IN  AssignedInOrder(
                 AssignBlock(AssignBlock(AssignBlock(df, su, b, order[1]),
                                         su, b, order[2]), su, b, order[3]),
                 i + 1, order)

ZeroBlocks == [k \in DOMAIN bl.df |-> [bl.df[k] EXCEPT !.block_num = 0]]

Orders == {o \in [1..3 -> 1..3] : \A i, j \in 1..3 : i /= j => o[i] /= o[j]}

\* the rows of the subjects other than the one of the current turn of the
\* loop are the same before and after a step
OtherRowsKept ==
    bl.pc \in {"assign1", "assign2", "assign3"} =>
        \A k \in DOMAIN bl.df :
            bl.df[k].subject /= bl.subjects[bl.s] => bl'.df[k] = bl.df[k]

\* C30: in the table that add_block_information returns, an epoch with
\* orderN below break1 of its subject has block 1, one from break1 up to
\* break1 + break2 has block 2, one from there up to break1 + break2 + total
\* has block 3 and any other has block 0; the three assignments give the same
\* table in each of their six orders; and an assignment for one subject
\* changes no row of another subject
C30_BlocksPartitionEpochs ==
    /\ [](bl.pc = "return" =>
            /\ \A k \in DOMAIN bl.df :
                  bl.df[k].block_num =
                      BlockOf(bl.df[k].orderN, bl.break_info[bl.df[k].subject])
            /\ \A order \in Orders : AssignedInOrder(ZeroBlocks, 1, order) = bl.df)
    /\ [][OtherRowsKept]_vars

\* the table is returned with epochs of blocks 1, 2, 3 and 0 of a subject,
\* and the two subjects have different lengths of blocks
C30_Witness ==
    /\ bl.pc = "return"
    /\ bl.break_info[BlockSubjects[1]] /= bl.break_info[BlockSubjects[2]]
    /\ \A n \in 0..3 : \E k \in DOMAIN bl.df :
          bl.df[k].subject = BlockSubjects[2] /\ bl.df[k].block_num = n

====
